---- MODULE Spec2Model ----
(***************************************************************************)
(* Verification model of the meld backend (src-tauri).                     *)
(*                                                                         *)
(*   Spec         one assistant run task: spawn_assistant_task, the        *)
(*                select! against the cancel channel, Agent::run with its  *)
(*                producer task, tool batch, budget and ledger             *)
(*   SpecRuntime  the process-wide active-run map under any interleaving   *)
(*                of registrations, cancellations and completions          *)
(*   SpecTools    ToolRegistry::execute with kb_create / kb_update on a    *)
(*                vault file that another writer may modify                *)
(*   SpecVault    path arguments of kb_read / kb_create / kb_update /      *)
(*                kb_list resolved against the vault root                  *)
(*   SpecUsage    token usage of a run: provider streams reporting usage   *)
(*                and the run's accumulation of the Usage events           *)
(*   SpecLlm      chat_stream: run_chat_with_retries on the primary model, *)
(*                the recovery events and the fallback model               *)
(*   SpecReindex  run_reindex_internal called by the reindex command and   *)
(*                by the watcher task, gated by INDEXING_ACTIVE            *)
(*   SpecStore    VectorDb writers (replace_file_chunks_atomically,        *)
(*                remove_file_chunks, save_message) statement by statement *)
(*                with a reader on another connection                      *)
(*   SpecConversations  create / archive / pin of conversation rows        *)
(*   SpecSearch   search_hybrid: reciprocal rank fusion of the vector and  *)
(*                keyword candidates, sort and truncate                    *)
(*   SpecCompaction  maybe_compact_context on a message history            *)
(*   SpecBatch    one tool batch of Agent::run on one note: reads joined,  *)
(*                writes in order, results merged by index                 *)
(*   SpecWatcher, SpecWatcherFair  the vault watcher thread and the        *)
(*                reindex tasks it spawns, without and with fair polling   *)
(*   SpecFair     Spec with the run future polled fairly                   *)
(*   SpecCreate   two kb_create calls on one path on two worker threads    *)
(*   SpecChunk, SpecChunkFair  one call of chunk_text                      *)
(***************************************************************************)
EXTENDS Integers, Sequences, FiniteSets, TLC

\* ------------------------------------------------------------------ bounds
\* RunBudget.max_iterations of the modelled run (the default is 15).
MaxIterations == 2
\* RunBudget.max_tool_calls of the modelled run (the default is 30).
MaxToolCalls == 2
\* Most tool calls the model places in one response.
MaxBatch == 2
\* Most events one producer task sends on its channel.
MaxStreamEvents == 2
\* Most events buffered in the unbounded channel at a time.
MaxQueue == 1

VARIABLES
    \* --- runtime (commands/assistant.rs)
    next_run_token,      \* NEXT_ASSISTANT_RUN_TOKEN
    active_runs,         \* ACTIVE_ASSISTANT_RUNS: conversation -> token (0: no entry)
    cancel_signalled,    \* tokens whose cancel_tx.send(()) was executed
    run_conv,            \* token -> conversation it was spawned for (0: not spawned)
    task,                \* token -> state of the task spawned by spawn_assistant_task
    reg_order,           \* tokens in the order register_assistant_run inserted them
    chat_cancelled,      \* tokens for which chat:cancelled was emitted
    chat_out,            \* what execute_assistant_run of the observed run saved and emitted
    \* --- Agent::run of the observed run (core/agent/run.rs)
    pc,                  \* position of the run future
    iteration,           \* loop variable of `for iteration in 0..max_iterations`
    elapsed_over,        \* run_started.elapsed() > time_budget_ms
    token_budget,        \* RunBudget.token_budget (0: None)
    request,             \* note_count and indexed_chunks of the RunRequest
    total_tool_calls,
    total_write_calls,
    verify_failures,
    messages,            \* Vec<ChatMessage>
    llm_handle,          \* state of the producer task spawned for the iteration
    tx_sent,             \* events the producer has sent on this stream
    rx,                  \* events buffered in the channel
    rx_open,             \* the receiver of the iteration's channel is alive
    text_response,       \* chars of the text accumulated in this iteration
    tool_calls,          \* tool calls buffered in this iteration
    thinking_state_emitted,
    outcomes,            \* index -> outcome of the tool call of the batch
    run_states,          \* agent:run_state events emitted, in emission order
    run_row,             \* the run's row of the runs table
    run_result,          \* what Agent::run returned ("err": Err of another message)
    llm_calls,           \* streaming calls opened by the loop
    summary_calls,       \* summarization calls opened by compaction
    executed_tools,      \* registry executions performed for the run
    done_step,           \* result_preview of the timeline step of phase "done"
    exec_log,            \* starts and returns of tools.execute, in order
    \* --- one call through ToolRegistry::execute (adapters/mcp/mod.rs)
    tool,                \* name of the tool called ("none": no call yet)
    t_pc,                \* position of the call
    t_content,           \* the `content` argument
    file,                \* content of the target file on disk ("absent": no file)
    before,              \* NoteVerification read before the write
    before_content,      \* what read_note returned before the write (kb_update)
    after,               \* NoteVerification read after the write
    after_content,       \* what read_note returned after the write
    envelope,            \* what the tool returned to the registry
    returned,            \* what the registry returned
    ext_writes,          \* writes to the target by other writers so far
    \* --- one vault call with a path argument (adapters/vault/mod.rs)
    v_op,                \* name of the tool called ("none": no call yet)
    v_arg,               \* the argument, split at '/'
    v_access,            \* the path the call read, wrote or listed
    \* --- token usage of the streams of one run (providers/*.rs, run.rs)
    u_provider,          \* provider of the open stream ("none": no stream)
    u_open,              \* a provider stream is open
    usage_totals,        \* usage_totals of the provider function
    stream_reports,      \* usage objects the upstream surfaced in this stream
    finished_streams,    \* the reports of the streams that have ended
    usage_rx,            \* StreamEvent::Usage events in the channel
    total_token_usage,   \* total_token_usage of Agent::run
    usage_emitted,       \* payload of the last agent:token_usage event
    \* --- one call of chat_stream (adapters/llm/mod.rs)
    l_pc,                \* position of chat_stream
    l_phase,             \* "primary" or "fallback": whose retry loop runs
    l_attempt,           \* loop variable of `for attempt in 0..max_attempts`
    l_now,               \* the clock, in seconds
    l_wake_at,           \* when the sleep of the retry loop ends
    l_calls,             \* invocations of provider.chat, with their results
    l_events,            \* StreamEvent::Recovery events sent, in order
    l_tx,                \* Text and ToolCall events the attempts sent on tx
    l_read,              \* events of l_tx the loop of Agent::run has received
    l_primary_error,     \* primary_error of chat_stream
    l_result,            \* what chat_stream returned
    l_tools,             \* tools.is_some()
    l_fallback_id,       \* settings.fallback_chat_model_id() ("": None)
    \* --- run_reindex_internal (commands/watcher.rs, core/agent/state.rs)
    indexing_active,     \* INDEXING_ACTIVE
    r_pc,                \* caller -> position of its run_reindex_internal
    r_calls,             \* caller -> invocations made so far
    r_file,              \* caller -> files its loop has gone through
    r_skipped,           \* caller -> its invocation returned at the gate
    r_read,              \* caller -> its invocation read the vault
    r_wrote,             \* caller -> its invocation modified the index
    index_db,            \* files whose chunks are in the index
    \* --- one connection writing the store, one reading (adapters/vectordb)
    db,                  \* the rows of the database file
    tx,                  \* the rows the writer's statements act on
    w_op,                \* the mutating method the writer is in ("none")
    w_pc,                \* the statement the writer executes next
    w_arg,               \* the arguments of the method
    w_i,                 \* chunks the loop of the method has inserted
    w_before,            \* the database when the method was called
    w_target,            \* the database after all statements of the method
    w_done,              \* how the last method returned
    w_ops,               \* methods called so far
    rd_seen,             \* what the last query of the reader returned
    \* --- the conversations table (adapters/vectordb, commands/conversations.rs)
    conversations,       \* id -> row of the conversation (exists: FALSE if none)
    c_result,            \* what the last command returned
    \* --- search_hybrid on an unchanged index (adapters/vectordb)
    s_vector,            \* chunks search_vector_candidates returns, best first
    s_keyword,           \* chunks search_keyword_candidates returns, best first
    s_limit,             \* the `limit` argument
    s_results,           \* the result lists of the calls made so far
    \* --- one call of maybe_compact_context (core/agent/compaction.rs)
    k_pc,                \* "start", or "done" when the call has returned
    k_before,            \* `messages` when the call was made
    k_messages,          \* `messages`
    k_compacted,         \* CompactionResult.compacted
    k_removed,           \* removed_messages of the event payload
    \* --- one tool batch on one note of the vault (core/agent/run.rs)
    b_pc,                \* "reads", "writes" or "done"
    b_calls,             \* tool_calls of the iteration, all on the same path
    b_file,              \* content of the note on disk ("absent": no file)
    b_results,           \* position -> result of the call (st "todo": not run)
    b_messages,          \* the tool-role messages appended after the batch
    \* --- the vault watcher and the reindex tasks it spawns (commands/watcher.rs)
    wt_version,          \* changes made to the note so far: its version on disk
    wt_event,            \* a debounced event is in events_rx
    wt_pc,               \* task -> position of its run_reindex_internal
    wt_read,             \* task -> version of the note its loop read
    wt_indexed,          \* version of the note whose chunks the index holds
    \* --- two concurrent kb_create calls on one path (adapters/mcp/mod.rs)
    cc_file,             \* the file both calls target ("absent" or its content)
    cc_pc,               \* call -> position in execute_kb_create
    cc_content,          \* call -> the content argument
    cc_after,            \* call -> `after` of the call
    cc_returned,         \* call -> the envelope ToolRegistry::execute returned
    \* --- one call of chunk_text (adapters/markdown/mod.rs)
    ch_pc,               \* position in chunk_text
    ch_text,             \* the text: whether it is empty, and its number of words
    ch_size,             \* chunk_size
    ch_overlap,          \* overlap
    ch_start,            \* `start`
    ch_chunks            \* `chunks`: the number of words of each chunk

rtVars == <<next_run_token, active_runs, cancel_signalled, run_conv, task,
            reg_order, chat_cancelled,
                   chat_out>>
runVars == <<pc, iteration, elapsed_over, token_budget, request,
             total_tool_calls,
             total_write_calls, verify_failures, messages, llm_handle, tx_sent,
             rx, rx_open, text_response, tool_calls, thinking_state_emitted,
             outcomes, run_states, run_row, run_result, llm_calls,
             summary_calls, executed_tools, done_step, exec_log>>
toolVars == <<tool, t_pc, t_content, file, before, before_content, after,
              after_content, envelope, returned, ext_writes>>
vaultVars == <<v_op, v_arg, v_access>>
usageVars == <<u_provider, u_open, usage_totals, stream_reports,
               finished_streams, usage_rx, total_token_usage, usage_emitted>>
llmVars == <<l_pc, l_phase, l_attempt, l_now, l_wake_at, l_calls, l_events,
             l_tx, l_read, l_primary_error, l_result, l_tools, l_fallback_id>>
idxVars == <<indexing_active, r_pc, r_calls, r_file, r_skipped, r_read,
             r_wrote, index_db>>
storeVars == <<db, tx, w_op, w_pc, w_arg, w_i, w_before, w_target, w_done,
               w_ops, rd_seen>>
convVars == <<conversations, c_result>>
searchVars == <<s_vector, s_keyword, s_limit, s_results>>
compVars == <<k_pc, k_before, k_messages, k_compacted, k_removed>>
batchVars == <<b_pc, b_calls, b_file, b_results, b_messages>>
watchVars == <<wt_version, wt_event, wt_pc, wt_read, wt_indexed>>
createVars == <<cc_file, cc_pc, cc_content, cc_after, cc_returned>>
chunkVars == <<ch_pc, ch_text, ch_size, ch_overlap, ch_start, ch_chunks>>
extVars == <<storeVars, convVars, searchVars, compVars,
            batchVars,
            watchVars,
            createVars,
            chunkVars>>
auxVars == <<usageVars, llmVars, idxVars, extVars>>
kbVars == <<toolVars, vaultVars, auxVars>>
coreVars == <<rtVars, runVars, toolVars, vaultVars>>
vars == <<rtVars, runVars, kbVars>>

\* ------------------------------------------------------------ AgentState
TerminalStates == {"completed", "failed", "timeout", "cancelled"}

AgentStates == {"accepted", "planning", "thinking", "tool_calling", "verifying",
                "responding"} \cup TerminalStates

\* --------------------------------------------------------------- budget
\* chars / 4 + 8 per message, plus tool-name length / 4.
MessageTokens(msg) == (msg.chars \div 4) + 8 + (Len(msg.tool_name) \div 4)

RECURSIVE SumTokens(_)
SumTokens(msgs) ==
    IF msgs = <<>> THEN 0
    ELSE MessageTokens(Head(msgs)) + SumTokens(Tail(msgs))

approximate_token_count(msgs) == SumTokens(msgs)

budget_timeout_reason(over, iter, calls, msgs) ==
    IF over THEN "time_budget_exceeded"
    ELSE IF iter >= MaxIterations THEN "max_iterations_reached"
    ELSE IF calls >= MaxToolCalls THEN "max_tool_calls_reached"
    ELSE IF token_budget # 0 /\ approximate_token_count(msgs) >= token_budget
         THEN "token_budget_exceeded"
    ELSE "none"

\* `model` stands for the family substring the lowercased model id contains.
approximate_model_context_limit(model) ==
    IF model \in {"gemini-2.5", "gemini-3", "gemini-1.5"} THEN 1000000
    ELSE IF model = "claude" THEN 200000
    ELSE IF model \in {"gpt-5", "gpt-4.1", "gpt-4o"} THEN 128000
    ELSE IF model = "qwen" THEN 131072
    ELSE 64000

\* ------------------------------------------------------------- messages
\* ChatMessage: role, length of content, ids of tool_calls, tool_call_id
\* (0: None), tool_name ("": None), and for a tool message whether its
\* content parses to an envelope with ok = true.
Msg(role, chars, calls, call_id, name, ok) ==
    [role |-> role, chars |-> chars, tool_calls |-> calls,
     tool_call_id |-> call_id, tool_name |-> name, ok |-> ok]

\* Lengths of the instructions and of the user message of the modelled run.
InstructionChars == 40
UserChars == 12
\* Lengths of a tool envelope and of the content of a large note in an envelope.
SmallChars == 40
BigChars == 204800
\* Length of the summary text a summarization call returns.
SummaryChars == 80

is_write_tool(name) == name \in {"kb_create", "kb_update"}

\* A name the registry has no tool for.
UnknownTool == "kb_delete"

\* Tool names the model may call: an asynchronous Read tool, a Write tool and
\* a name that is not registered.
ToolNames == {"kb_search", "kb_create", UnknownTool}

\* What the registry returns for a call: ok, error.code, length of the envelope.
Outcome(ok, code, chars) == [ok |-> ok, code |-> code, chars |-> chars]

ToolOutcomes(name) ==
    IF name = UnknownTool
    THEN {Outcome(FALSE, "unknown_tool", SmallChars)}
    ELSE IF is_write_tool(name)
    THEN {Outcome(TRUE, "", SmallChars),
          Outcome(FALSE, "verify_mismatch", SmallChars),
          Outcome(FALSE, "invalid_arguments", SmallChars)}
    ELSE {Outcome(TRUE, "", SmallChars),
          Outcome(TRUE, "", BigChars),
          Outcome(FALSE, "invalid_arguments", SmallChars)}

\* ----------------------------------------------------------- compaction
\* A score that gives tool messages and tool calls no weight.
message_importance_without_tools(index, total, message) ==
    (IF index + 6 >= total THEN 2 ELSE 0)
    + (IF message.role = "user" THEN 1 ELSE 0)

message_importance(index, total, message) ==
    (IF message.tool_calls # <<>> \/ message.role = "tool" THEN 3 ELSE 0)
    + (IF index + 6 >= total THEN 2 ELSE 0)
    + (IF message.role = "user" THEN 1 ELSE 0)

Min(a, b) == IF a < b THEN a ELSE b

\* Indices are those of the Vec (from 0); messages[i] is msgs[i + 1].
CompactionEnd(msgs) == Len(msgs) - Min(6, Len(msgs) - 1)

ScoredDrops(msgs) ==
    {i \in 1..(CompactionEnd(msgs) - 1) :
        message_importance(i, Len(msgs), msgs[i + 1]) <= 2}

drop_indices(msgs) ==
    IF ScoredDrops(msgs) # {} THEN ScoredDrops(msgs)
    ELSE {i \in 1..(CompactionEnd(msgs) - 1) : i <= 3}

compaction_triggered(msgs, model) ==
    /\ approximate_token_count(msgs)
          >= (approximate_model_context_limit(model) * 4) \div 5
    /\ Len(msgs) >= 4
    /\ CompactionEnd(msgs) > 1
    /\ drop_indices(msgs) # {}

DroppedMessages(msgs) == {msgs[i + 1] : i \in drop_indices(msgs)}

\* format_messages_for_summary is empty when every dropped content is empty.
summary_call_needed(msgs) == \E m \in DroppedMessages(msgs) : m.chars > 0

has_verified_write_in_messages(dropped) ==
    \E m \in dropped : is_write_tool(m.tool_name) /\ m.role = "tool" /\ m.ok

needs_pre_compaction_flush(dropped) ==
    /\ \E m \in dropped : m.role \in {"user", "assistant"} /\ m.chars > 0
    /\ ~has_verified_write_in_messages(dropped)

RECURSIVE KeepFrom(_, _, _)
KeepFrom(msgs, drops, i) ==
    IF i >= Len(msgs) THEN <<>>
    ELSE (IF i \in drops THEN <<>> ELSE <<msgs[i + 1]>>)
         \o KeepFrom(msgs, drops, i + 1)

\* A compaction that puts the summary in front of the history.
compacted_summary_first(msgs, summary_chars) ==
    <<Msg("system", 28 + summary_chars, <<>>, 0, "", FALSE)>>
    \o <<msgs[1]>>
    \o KeepFrom(msgs, drop_indices(msgs), 1)

\* The history after compaction: survivors in order, the summary at index 1.
compacted_messages(msgs, summary_chars) ==
    <<msgs[1]>>
    \o <<Msg("system", 28 + summary_chars, <<>>, 0, "", FALSE)>>
    \o KeepFrom(msgs, drop_indices(msgs), 1)

\* -------------------------------------------------------------- runtime
\* Most runs spawned (SpecRuntime).
MaxRuns == 3

Tokens == 1..MaxRuns
\* Conversation ids the runs are spawned for.
Conversations == {1, 2}

\* The end of execute_assistant_run: whether the assistant message is in the
\* messages table, and the event emitted ("": none).
ChatOut(saved, event) == [saved |-> saved, event |-> event]
NoChatOut == ChatOut(FALSE, "")

RtInit ==
    /\ next_run_token = 1
    /\ active_runs = [c \in Conversations |-> 0]
    /\ cancel_signalled = {}
    /\ run_conv = [t \in Tokens |-> 0]
    /\ task = [t \in Tokens |-> "none"]
    /\ reg_order = <<>>
    /\ chat_cancelled = {}
    /\ chat_out = NoChatOut

\* A registration that replaces the previous entry without signalling it.
register_without_cancel(runs, signalled, c, t) ==
    [runs |-> [runs EXCEPT ![c] = t], signalled |-> signalled]

\* register_assistant_run: remove and signal the previous entry, insert the run.
register_assistant_run(runs, signalled, c, t) ==
    [runs |-> [runs EXCEPT ![c] = t],
     signalled |-> IF runs[c] # 0 THEN signalled \cup {runs[c]} ELSE signalled]

\* finish_assistant_run: remove the entry only when it holds this token.
finish_assistant_run(runs, c, t) ==
    IF runs[c] = t THEN [runs EXCEPT ![c] = 0] ELSE runs

\* spawn_assistant_task, first statement: NEXT_ASSISTANT_RUN_TOKEN.fetch_add(1).
TakeToken(t, c) ==
    /\ next_run_token = t
    /\ task[t] = "none"
    /\ next_run_token' = t + 1
    /\ run_conv' = [run_conv EXCEPT ![t] = c]
    /\ task' = [task EXCEPT ![t] = "token_taken"]
    /\ UNCHANGED <<active_runs, cancel_signalled, reg_order, chat_cancelled,
                   chat_out>>

\* spawn_assistant_task, the rest: register the run and spawn its task.
RegisterAndSpawn(t) ==
    /\ task[t] = "token_taken"
    /\ LET r == register_assistant_run(active_runs, cancel_signalled, run_conv[t], t)
       IN /\ active_runs' = r.runs
          /\ cancel_signalled' = r.signalled
    /\ reg_order' = Append(reg_order, t)
    /\ task' = [task EXCEPT ![t] = "racing"]
    /\ UNCHANGED <<next_run_token, run_conv, chat_cancelled,
                   chat_out>>

\* cancel_active_run(c) when the conversation has an entry (returns true).
CancelActiveRun(c) ==
    /\ active_runs[c] # 0
    /\ cancel_signalled' = cancel_signalled \cup {active_runs[c]}
    /\ active_runs' = [active_runs EXCEPT ![c] = 0]
    /\ UNCHANGED <<next_run_token, run_conv, task, reg_order, chat_cancelled,
                   chat_out>>

\* The end of the spawned task: unlisten, chat:cancelled when the cancel branch
\* won the select!, finish_assistant_run.
FinishTask(t) ==
    /\ task[t] \in {"cancelled", "completed"}
    /\ chat_cancelled' = IF task[t] = "cancelled" THEN chat_cancelled \cup {t}
                         ELSE chat_cancelled
    /\ active_runs' = finish_assistant_run(active_runs, run_conv[t], t)
    /\ task' = [task EXCEPT ![t] = "finished"]
    /\ UNCHANGED <<next_run_token, cancel_signalled, run_conv, reg_order,
                   chat_out>>

\* ------------------------------------------------- ToolRegistry::execute
\* Most writes other writers make to the target file during one call.
MaxExternalWrites == 2

\* Contents a note may have; the empty one is what unwrap_or_default yields.
Contents == {"", "alpha", "beta"}
Files == {"absent"} \cup Contents

\* SHA-256 as an injective tagging of the content.
file_hash(content) == <<"sha256", content>>

\* An envelope: ok and proof.readback_ok are "true", "false" or "absent";
\* error.code is "" and retriable FALSE when there is no error object.
Envelope(ok, code, retriable, target, readback_ok, hash_after) ==
    [ok |-> ok, code |-> code, retriable |-> retriable, target |-> target,
     readback_ok |-> readback_ok, hash_after |-> hash_after,
     exists |-> "absent", hash_before |-> <<"none", "">>, changed |-> "absent",
     write_action |-> "", noop |-> "absent"]

\* The proof fields exists, hash_before and diff_stats.changed of an envelope.
with_proof(e, exists, hash_before, changed) ==
    [e EXCEPT !.exists = exists, !.hash_before = hash_before,
              !.changed = changed]

\* build_write_result: result.write_action and result.noop.
build_write_result(e, write_action, noop) ==
    [e EXCEPT !.write_action = write_action, !.noop = noop]

\* json!(bool)
Json(b) == IF b THEN "true" ELSE "false"

\* diff_stats(before, after).changed
diff_stats_changed(b, a) == Json(b # a)

\* No hash_after in the proof, and the hash of a file that does not exist.
NoHash == <<"none", "">>
EmptyHash == <<"", "">>

NoEnvelope == Envelope("absent", "", FALSE, "absent", "absent", NoHash)

\* error_envelope: ok = false with an error object.
error_envelope(target, readback_ok, hash_after, code, retriable) ==
    Envelope("false", code, retriable, target, readback_ok, hash_after)

\* Envelopes an executor registered with a permission may return.
ExecutorEnvelopes ==
    {Envelope(ok, code, retriable, target, rb, NoHash) :
        ok \in {"true", "false", "absent"},
        code \in {"", "tool_error"},
        retriable \in BOOLEAN,
        target \in {"absent", "note.md"},
        rb \in {"true", "false", "absent"}}

Permission(name) ==
    IF name \in {"kb_create", "kb_update", "write_tool"} THEN "Write" ELSE "Read"

\* A registry that returns what the tool returned.
registry_pass_through(permission, result) == result

\* enforce_registry_write_verification.
enforce_registry_write_verification(permission, result) ==
    IF permission # "Write" THEN result
    ELSE IF result.ok = "false" THEN result
    ELSE IF result.readback_ok = "true" THEN result
    ELSE [result EXCEPT !.ok = "false", !.code = "verify_mismatch",
                        !.retriable = FALSE]

\* read_note_verification: exists and the hash of what is on disk.
read_note_verification(f) ==
    IF f = "absent" THEN [exists |-> FALSE, hash |-> EmptyHash]
    ELSE [exists |-> TRUE, hash |-> file_hash(f)]

\* read_note(..).unwrap_or_default().
read_note_or_default(f) == IF f = "absent" THEN "" ELSE f

NoVerification == [exists |-> FALSE, hash |-> EmptyHash]

\* A kb_create that goes on to write over an existing file.
create_never_refused(b) == FALSE

\* kb_create: `if before.exists { return error_envelope(.. "file_exists" ..) }`
create_refused(b) == b.exists

\* A kb_update that goes on to write a file that does not exist.
update_never_refused(b) == FALSE

\* kb_update: `if !before.exists { return error_envelope(.. "not_found" ..) }`
update_refused(b) == ~b.exists

\* A kb_update that writes whatever the file holds.
never_noop(b, content) == FALSE

\* kb_update: `if before.hash == desired_hash { return envelope(.. "noop" ..) }`
is_noop(b, content) == b.hash = file_hash(content)

\* A readback that only looks at the existence of the file.
readback_exists_only(a, content_read, content) == a.exists

\* `let readback_ok = after.exists && after_content == content;`
readback_ok(a, content_read, content) == a.exists /\ content_read = content

\* read_note_verification and read_to_string return Err only for a path that
\* exists.
ReadOutcomes(f) == IF f = "absent" THEN {TRUE} ELSE BOOLEAN

ToolIdle ==
    /\ tool = "none"
    /\ t_pc = "idle"
    /\ t_content = ""
    /\ before = NoVerification
    /\ before_content = ""
    /\ after = NoVerification
    /\ after_content = ""
    /\ envelope = NoEnvelope
    /\ returned = NoEnvelope
    /\ ext_writes = 0

\* ToolRegistry::execute up to the first read of the file: the arguments of
\* kb_create / kb_update, or the whole body of another executor.
ToolCallBegin ==
    /\ t_pc = "idle"
    /\ \E name \in {"kb_create", "kb_update", "write_tool", "read_tool"} :
          /\ tool' = name
          /\ IF name \in {"kb_create", "kb_update"}
             THEN \E args \in {"ok", "bad_path", "no_content"},
                     content \in Contents :
                    /\ t_content' = content
                    /\ IF args = "ok"
                       THEN /\ t_pc' = "before"
                            /\ UNCHANGED envelope
                       ELSE /\ t_pc' = "enforce"
                            /\ envelope' = error_envelope(
                                  IF args = "bad_path" THEN "absent" ELSE "note.md",
                                  "absent", NoHash, "invalid_arguments", FALSE)
             ELSE /\ \E e \in ExecutorEnvelopes : envelope' = e
                  /\ t_pc' = "enforce"
                  /\ UNCHANGED t_content
    /\ UNCHANGED <<file, before, before_content, after, after_content, returned,
                   ext_writes>>
    /\ UNCHANGED <<rtVars, runVars, vaultVars, auxVars>>

\* `before = read_note_verification(..)` and the checks on it.
ReadBefore ==
    /\ t_pc = "before"
    /\ \E io_ok \in ReadOutcomes(file) :
          IF ~io_ok
          THEN /\ envelope' = error_envelope("note.md", "absent", NoHash,
                                             "verify_failed", TRUE)
               /\ t_pc' = "enforce"
               /\ UNCHANGED before
          ELSE LET b == read_note_verification(file) IN
               /\ before' = b
               /\ IF tool = "kb_create" /\ create_refused(b)
                  THEN /\ envelope' = with_proof(
                              error_envelope("note.md", "absent", b.hash,
                                             "file_exists", FALSE),
                              "true", NoHash, "absent")
                       /\ t_pc' = "enforce"
                  ELSE IF tool = "kb_update" /\ update_refused(b)
                  THEN /\ envelope' = with_proof(
                              error_envelope("note.md", "absent", NoHash,
                                             "not_found", FALSE),
                              "false", NoHash, "absent")
                       /\ t_pc' = "enforce"
                  ELSE /\ t_pc' = IF tool = "kb_update" THEN "before_content"
                                  ELSE "write"
                       /\ UNCHANGED envelope
    /\ UNCHANGED <<tool, t_content, file, before_content, after, after_content,
                   returned, ext_writes>>
    /\ UNCHANGED <<rtVars, runVars, vaultVars, auxVars>>

\* kb_update: `before_content = read_note(..).unwrap_or_default()`, the
\* desired hash and the noop envelope.
ReadBeforeContent ==
    /\ t_pc = "before_content"
    /\ \E io_ok \in ReadOutcomes(file) :
          LET content == IF io_ok THEN read_note_or_default(file) ELSE "" IN
          /\ before_content' = content
          /\ IF is_noop(before, t_content)
                THEN /\ envelope' = build_write_result(
                            with_proof(
                                Envelope("true", "", FALSE, "note.md", "true",
                                         before.hash),
                                "true", before.hash,
                                diff_stats_changed(content, content)),
                            "noop", "true")
                     /\ t_pc' = "enforce"
                ELSE /\ t_pc' = "write"
                     /\ UNCHANGED envelope
    /\ UNCHANGED <<tool, t_content, file, before, after, after_content,
                   returned, ext_writes>>
    /\ UNCHANGED <<rtVars, runVars, vaultVars, auxVars>>

\* write_note(..): the file gets the requested content, or the write fails.
WriteNote ==
    /\ t_pc = "write"
    /\ \E io_ok \in BOOLEAN :
          IF io_ok
          THEN /\ file' = t_content
               /\ t_pc' = "readback"
               /\ UNCHANGED envelope
          ELSE /\ envelope' = with_proof(
                                  error_envelope("note.md", "absent", NoHash,
                                                 "write_failed", TRUE),
                                  Json(tool = "kb_update"),
                                  IF tool = "kb_update" THEN before.hash ELSE NoHash,
                                  "absent")
               /\ t_pc' = "enforce"
               /\ UNCHANGED file
    /\ UNCHANGED <<tool, t_content, before, before_content, after,
                   after_content, returned, ext_writes>>
    /\ UNCHANGED <<rtVars, runVars, vaultVars, auxVars>>

\* `after = read_note_verification(..)`: the first read after the write.
ReadAfter ==
    /\ t_pc = "readback"
    /\ \E io_ok \in ReadOutcomes(file) :
          IF io_ok
          THEN /\ after' = read_note_verification(file)
               /\ t_pc' = "readback_content"
               /\ UNCHANGED envelope
          ELSE /\ envelope' = with_proof(
                                  error_envelope("note.md", "absent", NoHash,
                                                 "verify_failed", TRUE),
                                  Json(tool = "kb_update"),
                                  IF tool = "kb_update" THEN before.hash ELSE NoHash,
                                  "absent")
               /\ t_pc' = "enforce"
               /\ UNCHANGED after
    /\ UNCHANGED <<tool, t_content, file, before, before_content, after_content,
                   returned, ext_writes>>
    /\ UNCHANGED <<rtVars, runVars, vaultVars, auxVars>>

\* `after_content = read_note(..)`: the second read, readback_ok, the envelope.
ReadAfterContent ==
    /\ t_pc = "readback_content"
    /\ \E io_ok \in ReadOutcomes(file) :
          LET content == IF io_ok THEN read_note_or_default(file) ELSE ""
              ok == readback_ok(after, content, t_content)
              hash_before == IF tool = "kb_update" THEN before.hash ELSE NoHash
              changed == diff_stats_changed(
                             IF tool = "kb_update" THEN before_content ELSE "",
                             content)
          IN /\ after_content' = content
             /\ envelope' =
                   IF ok
                   THEN build_write_result(
                            with_proof(
                                Envelope("true", "", FALSE, "note.md", "true",
                                         after.hash),
                                Json(after.exists), hash_before, changed),
                            IF tool = "kb_update" THEN "edit" ELSE "create",
                            "false")
                   ELSE with_proof(
                            error_envelope("note.md", "false", after.hash,
                                           "verify_mismatch", FALSE),
                            Json(after.exists), hash_before, changed)
    /\ t_pc' = "enforce"
    /\ UNCHANGED <<tool, t_content, file, before, before_content, after,
                   returned, ext_writes>>
    /\ UNCHANGED <<rtVars, runVars, vaultVars, auxVars>>

\* ToolRegistry::execute, last statement.
RegistryReturn ==
    /\ t_pc = "enforce"
    /\ returned' = enforce_registry_write_verification(Permission(tool), envelope)
    /\ t_pc' = "returned"
    /\ UNCHANGED <<tool, t_content, file, before, before_content, after,
                   after_content, envelope, ext_writes>>
    /\ UNCHANGED <<rtVars, runVars, vaultVars, auxVars>>

\* Another writer (an editor, a sync tool, a second run) replaces or removes
\* the file while the call is between two of its file operations.
ExternalWrite ==
    /\ t_pc \in {"before", "before_content", "write", "readback",
                "readback_content"}
    /\ ext_writes < MaxExternalWrites
    /\ \E f \in Files \ {file} : file' = f
    /\ ext_writes' = ext_writes + 1
    /\ UNCHANGED <<tool, t_pc, t_content, before, before_content, after,
                   after_content, envelope, returned>>
    /\ UNCHANGED <<rtVars, runVars, vaultVars, auxVars>>

\* ------------------------------------------------------ vault paths
\* Most '/'-separated parts of a path argument.
MaxPathParts == 2

\* The vault root, as the components of an absolute path.
VaultRoot == <<"home", "vault">>

\* Parts a path argument is made of.
RawParts == {"", ".", "..", " .. ", "notes", "a  b", "n.md"}

\* Path arguments split at '/'; <<>> is an argument that is not given, and a
\* first part "" followed by more parts is a string that starts with '/'.
PathArgs == {<<>>} \cup UNION {[1..n -> RawParts] : n \in 1..MaxPathParts}

\* normalize_part: split_whitespace().join(" ").
normalize_part(raw) ==
    CASE raw = " .. " -> ".."
      [] raw = "a  b" -> "a b"
      [] OTHER -> raw

ends_with_md(name) == name = "n.md"

\* normalize_note_path: Err for an empty path or a ".." part, else the kept
\* parts with ".md" appended when missing.
normalize_note_path(arg) ==
    LET mapped == [i \in 1..Len(arg) |-> normalize_part(arg[i])]
        kept == SelectSeq(mapped, LAMBDA q : q \notin {"", "."})
        n == Len(kept)
    IN IF \E i \in 1..Len(mapped) : mapped[i] = ".." THEN [ok |-> FALSE, path |-> <<>>]
       ELSE IF kept = <<>> THEN [ok |-> FALSE, path |-> <<>>]
       ELSE [ok |-> TRUE,
             path |-> IF ends_with_md(kept[n]) THEN kept
                      ELSE [kept EXCEPT ![n] = kept[n] \o ".md"]]

RECURSIVE Resolve(_, _)
\* What the file system makes of base/parts: "" and "." stay, ".." goes up.
Resolve(base, parts) ==
    IF parts = <<>> THEN base
    ELSE LET q == Head(parts) IN
         Resolve(IF q \in {"", "."} THEN base
                 ELSE IF q = ".."
                      THEN (IF base = <<>> THEN base
                            ELSE SubSeq(base, 1, Len(base) - 1))
                 ELSE Append(base, q),
                 Tail(parts))

is_absolute(arg) == Len(arg) >= 2 /\ arg[1] = ""

\* Path::join: an absolute argument replaces the base.
vault_join(arg) ==
    IF is_absolute(arg) THEN Resolve(<<>>, arg) ELSE Resolve(VaultRoot, arg)

NoAccess == [touched |-> FALSE, path |-> <<>>]
Access(path) == [touched |-> TRUE, path |-> path]

VaultIdle ==
    /\ v_op = "none"
    /\ v_arg = <<>>
    /\ v_access = NoAccess

\* kb_read / kb_create / kb_update: normalize_path_arg, then the file
\* operation on vault_path.join(resolved_path).
note_access(arg) ==
    LET r == normalize_note_path(arg)
    IN IF arg = <<>> \/ ~r.ok THEN NoAccess ELSE Access(vault_join(r.path))

\* kb_list: list_notes(vault_path, folder) walks vault_path.join(folder).
list_access(arg) ==
    IF arg = <<>> THEN Access(VaultRoot) ELSE Access(vault_join(arg))

KbNoteCall(name) ==
    /\ \E arg \in PathArgs :
          /\ v_arg' = arg
          /\ v_access' = note_access(arg)
    /\ v_op' = name
    /\ UNCHANGED <<rtVars, runVars, toolVars, auxVars>>

KbRead == KbNoteCall("kb_read")
KbCreate == KbNoteCall("kb_create")
KbUpdate == KbNoteCall("kb_update")

KbList ==
    /\ \E arg \in PathArgs :
          /\ v_arg' = arg
          /\ v_access' = list_access(arg)
    /\ v_op' = "kb_list"
    /\ UNCHANGED <<rtVars, runVars, toolVars, auxVars>>

\* ------------------------------------------------------------ Agent::run
\* RunBudget.token_budget of the modelled run when it is set.
TokenBudget == 50
\* Length of one Text delta.
TextChars == 8
\* Length of the recovery hint without the list of failed tools.
HintChars == 353

\* The model id of the modelled run (no family of the limit table matches).
RunModel == "local"

\* The requests of the modelled runs: a vault without notes, a vault whose
\* notes have no chunk in the index, and an indexed vault.
MaxNotes == 1
Requests == {r \in [note_count : 0..MaxNotes, indexed_chunks : 0..MaxNotes] :
                r.indexed_chunks <= r.note_count}
ReadyRequest == [note_count |-> MaxNotes, indexed_chunks |-> MaxNotes]

NoRow == [exists |-> FALSE, status |-> "", finished |-> FALSE,
          tool_calls |-> 0, write_calls |-> 0, verify_failures |-> 0]

Ev(kind, name, id) == [kind |-> kind, name |-> name, id |-> id]

RunInit ==
    /\ pc = "idle"
    /\ iteration = 0
    /\ elapsed_over = FALSE
    /\ token_budget \in {0, TokenBudget}
    /\ request \in Requests
    /\ total_tool_calls = 0
    /\ total_write_calls = 0
    /\ verify_failures = 0
    /\ messages = <<>>
    /\ llm_handle = "none"
    /\ tx_sent = 0
    /\ rx = <<>>
    /\ rx_open = FALSE
    /\ text_response = 0
    /\ tool_calls = <<>>
    /\ thinking_state_emitted = FALSE
    /\ outcomes = <<>>
    /\ run_states = <<>>
    /\ run_row = NoRow
    /\ run_result = "none"
    /\ llm_calls = 0
    /\ summary_calls = 0
    /\ executed_tools = 0
    /\ done_step = ""
    /\ exec_log = <<>>

\* emit_run_state: one agent:run_state event (also appended to the ledger).
emit_run_state(events, state, reason) ==
    Append(events, [state |-> state, reason |-> reason])

\* StorePort::start_run / VectorDb::create_run.
start_run(row) == [row EXCEPT !.exists = TRUE, !.status = "accepted"]

\* A finish_run that sets finished_at and the counters but leaves the status.
finish_run_keeps_status(row, status, tc, wc, vf) ==
    IF row.exists
    THEN [row EXCEPT !.finished = TRUE, !.tool_calls = tc,
                     !.write_calls = wc, !.verify_failures = vf]
    ELSE row

\* StorePort::finish_run / VectorDb::finish_run: UPDATE runs ... WHERE run_id.
finish_run(row, status, tc, wc, vf) ==
    IF row.exists
    THEN [row EXCEPT !.finished = TRUE, !.status = status, !.tool_calls = tc,
                     !.write_calls = wc, !.verify_failures = vf]
    ELSE row

\* emit_timeline_step(.., "done", .., Some(result_preview), ..) followed by
\* emit_timeline_done.
emit_done_step(result_preview) == done_step' = result_preview

\* format!("Agent timed out: {reason}")
timed_out_preview(reason) == "Agent timed out: " \o reason

\* emit_state_and_finish followed by the return of Agent::run.
emit_state_and_finish(status, reason, res) ==
    /\ run_states' = emit_run_state(run_states, status, reason)
    /\ run_row' = finish_run(run_row, status, total_tool_calls,
                             total_write_calls, verify_failures)
    /\ run_result' = res
    /\ pc' = "returned"

\* The observed run is the task of token 1; it is polled while it races the
\* cancel channel in select!.
Polled == task[1] = "racing"

\* A guard that lets every request through.
index_always_ready(req) == FALSE

\* `!is_cold_start && request.indexed_chunks == 0`
index_not_ready(req) == req.note_count # 0 /\ req.indexed_chunks = 0

\* format!("index_not_ready:indexed_chunks=0,indexed_files={},...")
index_not_ready_reason(active) ==
    "index_not_ready:indexing_active=" \o (IF active THEN "true" ELSE "false")

\* user_message of the index-readiness guard.
index_user_message(active) ==
    IF active THEN "Index is updating. Wait for reindex to finish before chat."
    ELSE "Index is empty. Run reindex before chatting."

\* Agent::run up to the index-readiness guard. is_indexing_active() reads
\* INDEXING_ACTIVE, which the reindex tasks of the process set and clear.
AgentRunBegin ==
    /\ Polled
    /\ pc = "idle"
    /\ messages' = <<Msg("system", InstructionChars, <<>>, 0, "", FALSE),
                     Msg("user", UserChars, <<>>, 0, "", FALSE)>>
    /\ IF index_not_ready(request)
       THEN \E active \in BOOLEAN :
               /\ run_states' = emit_run_state(
                      emit_run_state(run_states, "accepted", "new_run"),
                      "failed", index_not_ready_reason(active))
               /\ run_row' = finish_run(start_run(run_row), "failed", 0, 0, 0)
               /\ run_result' = index_user_message(active)
               /\ emit_done_step(index_user_message(active))
               /\ pc' = "returned"
       ELSE /\ run_states' = emit_run_state(run_states, "accepted", "new_run")
            /\ run_row' = start_run(run_row)
            /\ run_result' = run_result
            /\ UNCHANGED done_step
            /\ pc' = "loop_top"
    /\ UNCHANGED <<iteration, elapsed_over, token_budget, request, total_tool_calls,
                   total_write_calls, verify_failures, llm_handle, tx_sent, rx,
                   rx_open, text_response, tool_calls, thinking_state_emitted,
                   outcomes, llm_calls, summary_calls, executed_tools>>
    /\ UNCHANGED <<rtVars, kbVars, exec_log>>

\* The head of the loop: the budget check, planning, the producer task.
LoopTop ==
    /\ Polled
    /\ pc = "loop_top"
    /\ IF iteration >= MaxIterations
       THEN /\ emit_done_step(timed_out_preview("max_iterations_reached"))
            /\ emit_state_and_finish("timeout", "max_iterations_reached", "ok")
            /\ UNCHANGED <<llm_handle, tx_sent, rx, rx_open, llm_calls>>
       ELSE LET reason == budget_timeout_reason(elapsed_over, iteration,
                                                total_tool_calls, messages)
            IN IF reason # "none"
               THEN /\ emit_done_step(timed_out_preview(reason))
                    /\ emit_state_and_finish("timeout", reason, "ok")
                    /\ UNCHANGED <<llm_handle, tx_sent, rx, rx_open, llm_calls>>
               ELSE /\ run_states' = emit_run_state(run_states, "planning", "")
                    /\ llm_handle' = "running"
                    /\ tx_sent' = 0
                    /\ rx' = <<>>
                    /\ rx_open' = TRUE
                    /\ llm_calls' = llm_calls + 1
                    /\ pc' = "recv"
                    /\ UNCHANGED <<run_row, run_result, done_step>>
    /\ text_response' = 0
    /\ tool_calls' = <<>>
    /\ thinking_state_emitted' = FALSE
    /\ UNCHANGED <<iteration, elapsed_over, token_budget, request, total_tool_calls,
                   total_write_calls, verify_failures, messages, outcomes,
                   summary_calls, executed_tools>>
    /\ UNCHANGED <<rtVars, kbVars, exec_log>>

\* ---- the producer task (llm.chat_stream behind LlmPort)
ToolCallsInFlight ==
    Len(tool_calls) + Cardinality({i \in 1..Len(rx) : rx[i].kind = "ToolCall"})

SendableEvents ==
    {Ev(k, "", 0) : k \in {"Text", "ThinkingSummary", "Done", "Error"}}
    \cup (IF ToolCallsInFlight < MaxBatch /\ pc = "recv"
          THEN {Ev("ToolCall", n, iteration * MaxBatch + ToolCallsInFlight + 1) :
                    n \in ToolNames}
          ELSE {})

\* tx.send(event) while the receiver is alive (a send after the receiver was
\* dropped returns Err, which the producer ignores: nothing changes).
ProducerSend ==
    /\ llm_handle = "running"
    /\ rx_open
    /\ tx_sent < MaxStreamEvents
    /\ Len(rx) < MaxQueue
    /\ \E ev \in SendableEvents : rx' = Append(rx, ev)
    /\ tx_sent' = tx_sent + 1
    /\ UNCHANGED <<pc, iteration, elapsed_over, token_budget, request, total_tool_calls,
                   total_write_calls, verify_failures, messages, llm_handle,
                   rx_open, text_response, tool_calls, thinking_state_emitted,
                   outcomes, run_states, run_row, run_result, llm_calls,
                   summary_calls, executed_tools>>
    /\ UNCHANGED <<rtVars, kbVars, done_step, exec_log>>

\* chat_stream returns Ok or Err, or the task panics; its sender is dropped.
ProducerFinish ==
    /\ llm_handle = "running"
    /\ llm_handle' \in {"finished_ok", "finished_err", "panicked"}
    /\ UNCHANGED <<pc, iteration, elapsed_over, token_budget, request, total_tool_calls,
                   total_write_calls, verify_failures, messages, tx_sent, rx,
                   rx_open, text_response, tool_calls, thinking_state_emitted,
                   outcomes, run_states, run_row, run_result, llm_calls,
                   summary_calls, executed_tools>>
    /\ UNCHANGED <<rtVars, kbVars, done_step, exec_log>>

\* ---- the streaming loop of the iteration
\* timeout(llm_response_timeout, rx.recv()) yields Ok(Some(event)).
RecvEvent ==
    /\ Polled
    /\ pc = "recv"
    /\ rx # <<>>
    /\ LET ev == Head(rx) IN
       /\ text_response' = IF ev.kind = "Text" THEN text_response + TextChars
                           ELSE text_response
       /\ tool_calls' = IF ev.kind = "ToolCall"
                        THEN Append(tool_calls, [name |-> ev.name, id |-> ev.id])
                        ELSE tool_calls
       /\ thinking_state_emitted' =
             (thinking_state_emitted \/ ev.kind = "ThinkingSummary")
       /\ IF ev.kind = "Error"
          THEN /\ emit_state_and_finish("failed", "stream_error", "err")
               /\ rx' = <<>>
               /\ rx_open' = FALSE
          ELSE /\ run_states' =
                     IF ev.kind = "ThinkingSummary" /\ ~thinking_state_emitted
                     THEN emit_run_state(run_states, "thinking", "")
                     ELSE run_states
               /\ pc' = IF ev.kind = "Done" THEN "join" ELSE "recv"
               /\ rx' = Tail(rx)
               /\ UNCHANGED <<rx_open, run_row, run_result>>
    /\ UNCHANGED <<iteration, elapsed_over, token_budget, request, total_tool_calls,
                   total_write_calls, verify_failures, messages, llm_handle,
                   tx_sent, outcomes, llm_calls, summary_calls, executed_tools>>
    /\ UNCHANGED <<rtVars, kbVars, done_step, exec_log>>

\* rx.recv() yields None: every sender is gone and the channel is empty.
RecvClosed ==
    /\ Polled
    /\ pc = "recv"
    /\ rx = <<>>
    /\ llm_handle # "running"
    /\ pc' = "join"
    /\ UNCHANGED <<iteration, elapsed_over, token_budget, request, total_tool_calls,
                   total_write_calls, verify_failures, messages, llm_handle,
                   tx_sent, rx, rx_open, text_response, tool_calls,
                   thinking_state_emitted, outcomes, run_states, run_row,
                   run_result, llm_calls, summary_calls, executed_tools>>
    /\ UNCHANGED <<rtVars, kbVars, done_step, exec_log>>

\* No event within llm_response_timeout_ms: Failed, llm_handle.abort().
RecvTimeout ==
    /\ Polled
    /\ pc = "recv"
    /\ rx = <<>>
    /\ llm_handle = "running"
    /\ emit_done_step("LLM response timeout")
    /\ emit_state_and_finish("failed", "llm_response_timeout", "err")
    /\ llm_handle' = "aborted"
    /\ rx_open' = FALSE
    /\ UNCHANGED <<iteration, elapsed_over, token_budget, request, total_tool_calls,
                   total_write_calls, verify_failures, messages, tx_sent, rx,
                   text_response, tool_calls, thinking_state_emitted, outcomes,
                   llm_calls, summary_calls, executed_tools>>
    /\ UNCHANGED <<rtVars, kbVars, exec_log>>

\* llm_handle.await completes once the producer task has ended.
Join ==
    /\ Polled
    /\ pc = "join"
    /\ llm_handle \in {"finished_ok", "finished_err", "panicked"}
    /\ IF llm_handle = "finished_ok"
       THEN /\ pc' = "post_stream"
            /\ UNCHANGED <<run_states, run_row, run_result, rx, rx_open>>
       ELSE /\ emit_state_and_finish(
                   "failed",
                   IF llm_handle = "panicked" THEN "llm_task_join_failed"
                   ELSE "llm_error",
                   "err")
            /\ rx' = <<>>
            /\ rx_open' = FALSE
    /\ UNCHANGED <<iteration, elapsed_over, token_budget, request, total_tool_calls,
                   total_write_calls, verify_failures, messages, llm_handle,
                   tx_sent, text_response, tool_calls, thinking_state_emitted,
                   outcomes, llm_calls, summary_calls, executed_tools>>
    /\ UNCHANGED <<rtVars, kbVars, done_step, exec_log>>

\* ---- after the stream: the final answer, or the tool batch
NoOutcome == [st |-> "todo", ok |-> FALSE, code |-> "", chars |-> 0]

ReadIndices(calls) == {i \in 1..Len(calls) : ~is_write_tool(calls[i].name)}

\* ToolRegistry::execute returns the unknown_tool envelope without
\* suspending, so the future of such a call completes at its first poll; the
\* registered Read tool of the model suspends in tools.execute.
completes_at_first_poll(name) == name = UnknownTool

RECURSIVE EmitForReads(_, _, _)
\* join_all polls the read futures in order: each emits tool_calling and
\* reaches tools.execute; one that does not suspend runs to its end,
\* emitting verifying, before the next future is polled.
EmitForReads(events, calls, i) ==
    IF i > Len(calls) THEN events
    ELSE EmitForReads(
            IF is_write_tool(calls[i].name) THEN events
            ELSE IF completes_at_first_poll(calls[i].name)
            THEN emit_run_state(
                     emit_run_state(events, "tool_calling", calls[i].name),
                     "verifying", calls[i].name)
            ELSE emit_run_state(events, "tool_calling", calls[i].name),
            calls, i + 1)

CallIds(calls) == [i \in 1..Len(calls) |-> calls[i].id]

\* One entry of the log of tools.execute: the call is started, or it returned
\* the envelope (ok, error.code, length of the serialized result).
LogEv(ev, id, name, ok, code, chars) ==
    [ev |-> ev, id |-> id, name |-> name, ok |-> ok, code |-> code,
     chars |-> chars]

RECURSIVE StartReads(_, _, _)
\* join_all polls the read futures in order: each reaches tools.execute, and
\* one that does not suspend returns before the next future is polled.
StartReads(log, calls, i) ==
    IF i > Len(calls) THEN log
    ELSE StartReads(
            IF is_write_tool(calls[i].name) THEN log
            ELSE IF completes_at_first_poll(calls[i].name)
            THEN log \o <<LogEv("start", calls[i].id, calls[i].name,
                                FALSE, "", 0),
                          LogEv("return", calls[i].id, calls[i].name,
                                FALSE, "unknown_tool", SmallChars)>>
            ELSE Append(log, LogEv("start", calls[i].id, calls[i].name,
                                   FALSE, "", 0)),
            calls, i + 1)

PostStream ==
    /\ Polled
    /\ pc = "post_stream"
    /\ IF tool_calls = <<>>
       THEN /\ IF text_response = 0
               THEN /\ emit_done_step("Model returned an empty response")
                    /\ emit_state_and_finish("failed", "empty_response", "err")
               ELSE /\ emit_done_step("Assistant response completed")
                    /\ run_states' = emit_run_state(
                           emit_run_state(run_states, "responding", ""),
                           "completed", "")
                    /\ run_row' = finish_run(run_row, "completed",
                                             total_tool_calls, total_write_calls,
                                             verify_failures)
                    /\ run_result' = "ok"
                    /\ pc' = "returned"
            /\ rx' = <<>>
            /\ rx_open' = FALSE
            /\ UNCHANGED <<messages, outcomes, executed_tools, exec_log>>
       ELSE LET pushed == Append(messages,
                                 Msg("assistant", text_response,
                                     CallIds(tool_calls), 0, "", FALSE))
                reason == budget_timeout_reason(elapsed_over, iteration,
                                                total_tool_calls, pushed)
            IN /\ messages' = pushed
               /\ IF reason # "none"
                  THEN /\ emit_done_step(timed_out_preview(reason))
                       /\ emit_state_and_finish("timeout", reason, "ok")
                       /\ rx' = <<>>
                       /\ rx_open' = FALSE
                       /\ UNCHANGED <<outcomes, executed_tools, exec_log>>
                  ELSE /\ outcomes' =
                             [i \in 1..Len(tool_calls) |->
                                 IF is_write_tool(tool_calls[i].name)
                                 THEN NoOutcome
                                 ELSE IF completes_at_first_poll(tool_calls[i].name)
                                 THEN [st |-> "done", ok |-> FALSE,
                                       code |-> "unknown_tool",
                                       chars |-> SmallChars]
                                 ELSE [NoOutcome EXCEPT !.st = "started"]]
                       /\ run_states' = EmitForReads(run_states, tool_calls, 1)
                       /\ executed_tools' =
                             executed_tools + Cardinality(ReadIndices(tool_calls))
                       /\ exec_log' = StartReads(exec_log, tool_calls, 1)
                       /\ pc' = IF \E i \in ReadIndices(tool_calls) :
                                      ~completes_at_first_poll(tool_calls[i].name)
                                THEN "reads" ELSE "writes"
                       /\ UNCHANGED <<run_row, run_result, rx, rx_open,
                                      done_step>>
    /\ UNCHANGED <<iteration, elapsed_over, token_budget, request, total_tool_calls,
                   total_write_calls, verify_failures, llm_handle, tx_sent,
                   text_response, tool_calls, thinking_state_emitted, llm_calls,
                   summary_calls>>
    /\ UNCHANGED <<rtVars, kbVars>>

\* ---- the tool batch
\* Length of the summary used when the summarization call yields nothing.
DefaultSummaryChars == 109

\* One read future of join_all completes: tool_result, verifying, verification.
ReadFinish(i) ==
    /\ Polled
    /\ pc = "reads"
    /\ i \in DOMAIN outcomes
    /\ outcomes[i].st = "started"
    /\ \E o \in ToolOutcomes(tool_calls[i].name) :
          /\ outcomes' = [outcomes EXCEPT
                            ![i] = [st |-> "done", ok |-> o.ok, code |-> o.code,
                                    chars |-> o.chars]]
          /\ exec_log' = Append(exec_log,
                                LogEv("return", tool_calls[i].id,
                                      tool_calls[i].name, o.ok, o.code, o.chars))
    /\ run_states' = emit_run_state(run_states, "verifying", tool_calls[i].name)
    /\ pc' = IF \A j \in DOMAIN outcomes : j # i => outcomes[j].st # "started"
             THEN "writes" ELSE "reads"
    /\ UNCHANGED <<iteration, elapsed_over, token_budget, request, total_tool_calls,
                   total_write_calls, verify_failures, messages, llm_handle,
                   tx_sent, rx, rx_open, text_response, tool_calls,
                   thinking_state_emitted, run_row, run_result, llm_calls,
                   summary_calls, executed_tools>>
    /\ UNCHANGED <<rtVars, kbVars, done_step>>

PendingWrites == {i \in DOMAIN outcomes : outcomes[i].st = "todo"}

\* A loop that takes the pending writes from the last one to the first.
next_write_reversed(pending) ==
    CHOOSE i \in pending : \A j \in pending : j <= i

\* `for (idx, tc) in &writes`: the pending write with the least index.
next_write(pending) ==
    CHOOSE i \in pending : \A j \in pending : i <= j

\* The next write of the sequential loop: execute_one_tool runs to its end.
WriteExec ==
    /\ Polled
    /\ pc = "writes"
    /\ PendingWrites # {}
    /\ LET i == next_write(PendingWrites) IN
          /\ \E o \in ToolOutcomes(tool_calls[i].name) :
                /\ outcomes' = [outcomes EXCEPT
                                  ![i] = [st |-> "done", ok |-> o.ok,
                                          code |-> o.code, chars |-> o.chars]]
                /\ exec_log' =
                      Append(Append(exec_log,
                                    LogEv("start", tool_calls[i].id,
                                          tool_calls[i].name, FALSE, "", 0)),
                             LogEv("return", tool_calls[i].id,
                                   tool_calls[i].name, o.ok, o.code, o.chars))
          /\ run_states' = emit_run_state(
                               emit_run_state(run_states, "tool_calling",
                                              tool_calls[i].name),
                               "verifying", tool_calls[i].name)
    /\ executed_tools' = executed_tools + 1
    /\ UNCHANGED <<pc, iteration, elapsed_over, token_budget, request, total_tool_calls,
                   total_write_calls, verify_failures, messages, llm_handle,
                   tx_sent, rx, rx_open, text_response, tool_calls,
                   thinking_state_emitted, run_row, run_result, llm_calls,
                   summary_calls>>
    /\ UNCHANGED <<rtVars, kbVars, done_step>>

WriteOutcomes == {i \in DOMAIN outcomes : is_write_tool(tool_calls[i].name)}
VerifyFailed == {i \in DOMAIN outcomes : outcomes[i].code = "verify_mismatch"}
FailedCalls == {i \in DOMAIN outcomes : ~outcomes[i].ok}
InvalidArgs == {i \in DOMAIN outcomes :
                   ~outcomes[i].ok /\ outcomes[i].code = "invalid_arguments"}
invalid_argument_tools == {tool_calls[i].name : i \in InvalidArgs}

RECURSIVE JoinedLen(_)
\* Length of the names joined with ", ".
JoinedLen(names) ==
    IF names = {} THEN 0
    ELSE LET n == CHOOSE x \in names : TRUE
         IN Len(n) + (IF names = {n} THEN 0 ELSE 2) + JoinedLen(names \ {n})

\* ToolExecOutcome of the call at position i of the batch.
ToolExecOutcome(i) ==
    [index |-> i, tool_call_id |-> tool_calls[i].id,
     tool_name |-> tool_calls[i].name, chars |-> outcomes[i].chars,
     tool_ok |-> outcomes[i].ok]

RECURSIVE OutcomesOf(_)
\* The outcomes of the calls at the given positions, in the order of the
\* partition (ascending position).
OutcomesOf(indices) ==
    IF indices = {} THEN <<>>
    ELSE LET i == CHOOSE x \in indices : \A y \in indices : x <= y
         IN <<ToolExecOutcome(i)>> \o OutcomesOf(indices \ {i})

\* join_all yields the outcomes of the reads in the order of the futures.
read_outcomes == OutcomesOf(ReadIndices(tool_calls))
\* The sequential loop pushes the outcomes of the writes as it goes.
write_outcomes == OutcomesOf(WriteOutcomes)

\* A merge that leaves the chained outcomes as they are.
chain_unsorted(chained) == chained

\* all_outcomes.sort_by_key(|o| o.index): the positions are distinct.
sort_by_key(chained) ==
    [k \in 1..Len(chained) |->
        chained[CHOOSE j \in 1..Len(chained) :
                   Cardinality({m \in 1..Len(chained) :
                                   chained[m].index < chained[j].index}) = k - 1]]

all_outcomes == sort_by_key(read_outcomes \o write_outcomes)

\* One tool-role message per merged outcome, in the merged order.
ToolMessages ==
    [k \in 1..Len(all_outcomes) |->
        Msg("tool", all_outcomes[k].chars, <<>>, all_outcomes[k].tool_call_id,
            all_outcomes[k].tool_name, all_outcomes[k].tool_ok)]

recovery_hint_needed ==
    /\ iteration = 0
    /\ invalid_argument_tools # {}
    /\ Cardinality(FailedCalls) = Len(tool_calls)
    /\ text_response = 0

\* A merge that leaves out the results of the calls that failed.
messages_of_successes ==
    messages \o SelectSeq(ToolMessages, LAMBDA m : m.ok)

\* The history after the batch: tool messages in call order, then the hint.
MessagesAfterBatch ==
    messages \o ToolMessages
    \o (IF recovery_hint_needed
        THEN <<Msg("system", HintChars + JoinedLen(invalid_argument_tools),
                   <<>>, 0, "", FALSE)>>
        ELSE <<>>)

\* Merge of the outcomes: counters, messages, the hint, and the start of
\* maybe_compact_context.
AfterBatch ==
    /\ Polled
    /\ pc = "writes"
    /\ PendingWrites = {}
    /\ total_tool_calls' = total_tool_calls + Len(tool_calls)
    /\ total_write_calls' = total_write_calls + Cardinality(WriteOutcomes)
    /\ verify_failures' = verify_failures + Cardinality(VerifyFailed)
    /\ messages' = MessagesAfterBatch
    /\ IF compaction_triggered(MessagesAfterBatch, RunModel)
       THEN /\ pc' = "compact_wait"
            /\ summary_calls' = IF summary_call_needed(MessagesAfterBatch)
                                THEN summary_calls + 1 ELSE summary_calls
            /\ UNCHANGED <<iteration, rx, rx_open>>
       ELSE /\ pc' = "loop_top"
            /\ iteration' = iteration + 1
            /\ rx' = <<>>
            /\ rx_open' = FALSE
            /\ UNCHANGED summary_calls
    /\ outcomes' = <<>>
    /\ UNCHANGED <<elapsed_over, token_budget, request, llm_handle, tx_sent,
                   text_response, tool_calls, thinking_state_emitted,
                   run_states, run_row, run_result, llm_calls, executed_tools>>
    /\ UNCHANGED <<rtVars, kbVars, done_step, exec_log>>

\* pre_compaction_flush: kb_read of the flush note, then kb_update when the
\* read was ok and kb_create otherwise, both through tools.execute.
pre_compaction_flush(log, read_ok, mismatch) ==
    LET write_tool == IF read_ok THEN "kb_update" ELSE "kb_create"
    IN log \o <<LogEv("start", 0, "kb_read", FALSE, "", 0),
                LogEv("return", 0, "kb_read", read_ok,
                      IF read_ok THEN "" ELSE "not_found", SmallChars),
                LogEv("start", 0, write_tool, FALSE, "", 0),
                LogEv("return", 0, write_tool, ~mismatch,
                      IF mismatch THEN "verify_mismatch" ELSE "", SmallChars)>>

\* maybe_compact_context returns: the summary, the flush (kb_read, then
\* kb_update or kb_create through the registry), the compacted history.
CompactFinish ==
    /\ Polled
    /\ pc = "compact_wait"
    /\ LET dropped == DroppedMessages(messages)
           flush == needs_pre_compaction_flush(dropped)
       IN /\ \E summary_chars \in
                   (IF summary_call_needed(messages) THEN {SummaryChars} ELSE {})
                   \cup {DefaultSummaryChars} :
                messages' = compacted_messages(messages, summary_chars)
          /\ \E flush_verify_mismatch \in
                   (IF flush THEN BOOLEAN ELSE {FALSE}) :
                /\ verify_failures' = verify_failures
                                      + (IF flush_verify_mismatch THEN 1 ELSE 0)
                /\ \E read_ok \in (IF flush THEN BOOLEAN ELSE {FALSE}) :
                      exec_log' =
                          IF flush
                          THEN pre_compaction_flush(exec_log, read_ok,
                                                    flush_verify_mismatch)
                          ELSE exec_log
          /\ total_tool_calls' = total_tool_calls + (IF flush THEN 1 ELSE 0)
          /\ total_write_calls' = total_write_calls + (IF flush THEN 1 ELSE 0)
          /\ executed_tools' = executed_tools + (IF flush THEN 2 ELSE 0)
    /\ pc' = "loop_top"
    /\ iteration' = iteration + 1
    /\ rx' = <<>>
    /\ rx_open' = FALSE
    /\ UNCHANGED <<elapsed_over, token_budget, request, llm_handle, tx_sent,
                   text_response, tool_calls, thinking_state_emitted, outcomes,
                   run_states, run_row, run_result, llm_calls, summary_calls>>
    /\ UNCHANGED <<rtVars, kbVars, done_step>>

\* ---- the task spawned by spawn_assistant_task, for the observed run
\* Positions at which the run future is suspended in an .await.
AwaitPoints == {"idle", "recv", "join", "reads", "compact_wait"}

\* select!: the cancel branch completes; the run future is dropped where it
\* is suspended, and with it the receiver and the JoinHandle of the producer
\* (dropping a JoinHandle detaches the task).
TaskCancelBranch ==
    /\ task[1] = "racing"
    /\ 1 \in cancel_signalled
    /\ pc \in AwaitPoints
    /\ task' = [task EXCEPT ![1] = "cancelled"]
    /\ pc' = "dropped"
    /\ rx' = <<>>
    /\ rx_open' = FALSE
    /\ UNCHANGED <<next_run_token, active_runs, cancel_signalled, run_conv,
                   reg_order, chat_cancelled,
                   chat_out>>
    /\ UNCHANGED <<iteration, elapsed_over, token_budget, request, total_tool_calls,
                   total_write_calls, verify_failures, messages, llm_handle,
                   tx_sent, text_response, tool_calls, thinking_state_emitted,
                   outcomes, run_states, run_row, run_result, llm_calls,
                   summary_calls, executed_tools>>
    /\ UNCHANGED <<kbVars, done_step, exec_log>>

\* What VectorDb::open followed by save_message may do: the INSERT and the
\* UPDATE succeed, the open or the INSERT fails, the UPDATE fails.
PersistOutcomes == {"ok", "insert_failed", "update_failed"}

\* execute_assistant_run after agent.run(..).await: on Ok the assistant
\* message is saved and chat:done emitted (chat:error when saving failed),
\* on Err chat:error is emitted.
persist_and_emit(result, persist) ==
    IF result # "ok" THEN ChatOut(FALSE, "chat:error")
    ELSE ChatOut(persist # "insert_failed",
                 IF persist = "ok" THEN "chat:done" ELSE "chat:error")

\* select!: execute_assistant_run completes after Agent::run returned; there
\* is no .await between the return of Agent::run and the end of the body.
TaskBodyReturns ==
    /\ task[1] = "racing"
    /\ pc = "returned"
    /\ task' = [task EXCEPT ![1] = "completed"]
    /\ \E persist \in PersistOutcomes :
          chat_out' = persist_and_emit(run_result, persist)
    /\ UNCHANGED <<next_run_token, active_runs, cancel_signalled, run_conv,
                   reg_order, chat_cancelled>>
    /\ UNCHANGED <<runVars, kbVars>>

\* run_started.elapsed() passes time_budget_ms; the positions are the ones
\* that precede a budget check (before the batch, and before the next loop head).
TimePasses ==
    /\ task[1] = "racing"
    /\ pc \in {"join", "writes"}
    /\ ~elapsed_over
    /\ elapsed_over' = TRUE
    /\ UNCHANGED <<pc, iteration, token_budget, request, total_tool_calls,
                   total_write_calls, verify_failures, messages, llm_handle,
                   tx_sent, rx, rx_open, text_response, tool_calls,
                   thinking_state_emitted, outcomes, run_states, run_row,
                   run_result, llm_calls, summary_calls, executed_tools>>
    /\ UNCHANGED <<rtVars, kbVars, done_step, exec_log>>

\* send_message for the observed conversation: the observed run (token 1),
\* then a later message sent while that run is in flight (token 2).
SpawnTakeToken ==
    \E t \in {1, 2} :
        /\ t = 2 => task[1] = "racing"
        /\ TakeToken(t, 1)
        /\ UNCHANGED <<runVars, kbVars>>
SpawnRegister == \E t \in {1, 2} : RegisterAndSpawn(t) /\ UNCHANGED <<runVars, kbVars>>
UserCancels == CancelActiveRun(1) /\ UNCHANGED <<runVars, kbVars>>
TaskEnds == FinishTask(1) /\ UNCHANGED <<runVars, kbVars>>

\* ----------------------------------------------------------- TokenUsage
\* Width of the token counters of the model (u64 in the source).
TokBits == 3
TokMax == 2^TokBits - 1

\* Option<u64>: <<>> is None, <<n>> is Some(n).
NoneTok == <<>>
SomeTok(n) == <<n>>

\* u64::saturating_add
saturating_add(lhs, rhs) == IF lhs + rhs > TokMax THEN TokMax ELSE lhs + rhs

add_optional(current, delta) ==
    IF current # NoneTok /\ delta # NoneTok
    THEN SomeTok(saturating_add(current[1], delta[1]))
    ELSE IF delta # NoneTok THEN delta
    ELSE current

max_optional(current, candidate) ==
    IF current # NoneTok /\ candidate # NoneTok
    THEN SomeTok(IF current[1] >= candidate[1] THEN current[1]
                 ELSE candidate[1])
    ELSE IF candidate # NoneTok THEN candidate
    ELSE current

\* TokenUsage, with two of its six counters (all six are treated alike).
TokenUsage(input, output) == [input_tokens |-> input, output_tokens |-> output]

DefaultUsage == TokenUsage(NoneTok, NoneTok)

is_empty(usage) ==
    usage.input_tokens = NoneTok /\ usage.output_tokens = NoneTok

saturating_add_assign(self, other) ==
    TokenUsage(add_optional(self.input_tokens, other.input_tokens),
               add_optional(self.output_tokens, other.output_tokens))

merge_max_assign(self, other) ==
    TokenUsage(max_optional(self.input_tokens, other.input_tokens),
               max_optional(self.output_tokens, other.output_tokens))

\* Streams of one run, and usage objects one stream may surface.
MaxStreams == 2
MaxReports == 2

\* Counter values an upstream usage object may carry.
ReportedTokens == {1, 3}

\* What extract_*_usage yields for a chunk that carries usage: parse_*_usage
\* yields None for an object without any counter.
UsageReports ==
    {u \in [input_tokens : {NoneTok} \cup {SomeTok(n) : n \in ReportedTokens},
            output_tokens : {NoneTok} \cup {SomeTok(n) : n \in ReportedTokens}] :
        ~is_empty(u)}

\* google.rs and anthropic.rs keep usage_totals; openai.rs (OpenAI, OpenRouter
\* and compatible endpoints) does not.
Providers == {"google", "anthropic", "openai"}

NoUsagePayload == [usage |-> DefaultUsage, cumulative |-> DefaultUsage]

UsageIdle ==
    /\ u_provider = "none"
    /\ u_open = FALSE
    /\ usage_totals = DefaultUsage
    /\ stream_reports = <<>>
    /\ finished_streams = <<>>
    /\ usage_rx = <<>>
    /\ total_token_usage = DefaultUsage
    /\ usage_emitted = NoUsagePayload

\* The loop opens the stream of an iteration once the previous one is drained.
UsageStreamOpen ==
    /\ ~u_open
    /\ usage_rx = <<>>
    /\ Len(finished_streams) < MaxStreams
    /\ u_provider' \in Providers
    /\ u_open' = TRUE
    /\ usage_totals' = DefaultUsage
    /\ stream_reports' = <<>>
    /\ UNCHANGED <<finished_streams, usage_rx, total_token_usage, usage_emitted>>
    /\ UNCHANGED <<coreVars, llmVars, idxVars, extVars>>

\* A chunk of the upstream stream carries a usage object.
ProviderReadsUsage ==
    /\ u_open
    /\ Len(stream_reports) < MaxReports
    /\ \E usage \in UsageReports :
          /\ stream_reports' = Append(stream_reports, usage)
          /\ IF u_provider = "openai"
             THEN /\ usage_rx' = Append(usage_rx, usage)
                  /\ UNCHANGED usage_totals
             ELSE /\ usage_totals' = merge_max_assign(usage_totals, usage)
                  /\ UNCHANGED usage_rx
    /\ UNCHANGED <<u_provider, u_open, finished_streams, total_token_usage,
                   usage_emitted>>
    /\ UNCHANGED <<coreVars, llmVars, idxVars, extVars>>

\* The upstream stream ends: the provider function sends its totals (google,
\* anthropic) and Done.
ProviderStreamEnds ==
    /\ u_open
    /\ u_open' = FALSE
    /\ usage_rx' = IF u_provider # "openai" /\ ~is_empty(usage_totals)
                   THEN Append(usage_rx, usage_totals)
                   ELSE usage_rx
    /\ finished_streams' = Append(finished_streams, stream_reports)
    /\ UNCHANGED <<u_provider, usage_totals, stream_reports, total_token_usage,
                   usage_emitted>>
    /\ UNCHANGED <<coreVars, llmVars, idxVars, extVars>>

\* The streaming loop of Agent::run receives StreamEvent::Usage.
RecvUsage ==
    /\ usage_rx # <<>>
    /\ LET usage == Head(usage_rx)
           total == saturating_add_assign(total_token_usage, usage)
       IN /\ total_token_usage' = total
          /\ usage_emitted' = [usage |-> usage, cumulative |-> total]
    /\ usage_rx' = Tail(usage_rx)
    /\ UNCHANGED <<u_provider, u_open, usage_totals, stream_reports,
                   finished_streams>>
    /\ UNCHANGED <<coreVars, llmVars, idxVars, extVars>>

\* ------------------------------------------------- run_reindex_internal
\* The tasks that call run_reindex_internal: the reindex command and the task
\* the vault watcher spawns on the runtime.
Callers == {"reindex_command", "watcher_task"}

\* Invocations per caller, and markdown files in the vault.
MaxInvocations == 2
MaxFiles == 2

\* Positions between set_indexing_active(true) and set_indexing_active(false).
BodyPositions == {"list", "files", "finish"}

ReindexIdle ==
    /\ indexing_active = FALSE
    /\ r_pc = [p \in Callers |-> "none"]
    /\ r_calls = [p \in Callers |-> 0]
    /\ r_file = [p \in Callers |-> 0]
    /\ r_skipped = [p \in Callers |-> FALSE]
    /\ r_read = [p \in Callers |-> FALSE]
    /\ r_wrote = [p \in Callers |-> FALSE]
    /\ index_db = {}

\* is_indexing_active(): INDEXING_ACTIVE.load(SeqCst).
is_indexing_active(active) == active

\* run_reindex_internal is called.
ReindexInvoke(p) ==
    /\ r_pc[p] \in {"none", "returned"}
    /\ r_calls[p] < MaxInvocations
    /\ r_calls' = [r_calls EXCEPT ![p] = @ + 1]
    /\ r_pc' = [r_pc EXCEPT ![p] = "check"]
    /\ r_file' = [r_file EXCEPT ![p] = 0]
    /\ r_skipped' = [r_skipped EXCEPT ![p] = FALSE]
    /\ r_read' = [r_read EXCEPT ![p] = FALSE]
    /\ r_wrote' = [r_wrote EXCEPT ![p] = FALSE]
    /\ UNCHANGED <<indexing_active, index_db>>
    /\ UNCHANGED <<coreVars, usageVars, llmVars, extVars>>

\* if is_indexing_active() { return Ok(()) }
ReindexCheck(p) ==
    /\ r_pc[p] = "check"
    /\ IF is_indexing_active(indexing_active)
       THEN /\ r_pc' = [r_pc EXCEPT ![p] = "returned"]
            /\ r_skipped' = [r_skipped EXCEPT ![p] = TRUE]
       ELSE /\ r_pc' = [r_pc EXCEPT ![p] = "set"]
            /\ UNCHANGED r_skipped
    /\ UNCHANGED <<indexing_active, r_calls, r_file, r_read, r_wrote, index_db>>
    /\ UNCHANGED <<coreVars, usageVars, llmVars, extVars>>

\* set_indexing_active(true): INDEXING_ACTIVE.store(true, SeqCst).
ReindexSetActive(p) ==
    /\ r_pc[p] = "set"
    /\ indexing_active' = TRUE
    /\ r_pc' = [r_pc EXCEPT ![p] = "list"]
    /\ UNCHANGED <<r_calls, r_file, r_skipped, r_read, r_wrote, index_db>>
    /\ UNCHANGED <<coreVars, usageVars, llmVars, extVars>>

\* The body up to the loop: settings, list_md_files, VectorDb::open, removal
\* of the chunks of files that are gone; any step may fail, and an empty
\* vault ends the body.
ReindexList(p) ==
    /\ r_pc[p] = "list"
    /\ r_read' = [r_read EXCEPT ![p] = TRUE]
    /\ \E outcome \in {"failed", "pruned", "unchanged"} :
          /\ index_db' = IF outcome = "pruned" THEN {} ELSE index_db
          /\ r_wrote' = [r_wrote EXCEPT ![p] = @ \/ outcome = "pruned"]
          /\ r_pc' = [r_pc EXCEPT
                        ![p] = IF outcome = "failed" THEN "finish" ELSE "files"]
    /\ UNCHANGED <<indexing_active, r_calls, r_file, r_skipped>>
    /\ UNCHANGED <<coreVars, usageVars, llmVars, extVars>>

\* One pass of `for (i, file) in files`: read the file, skip it when the
\* index is current, else embed its chunks and replace them; or the end of
\* the loop.
ReindexFile(p) ==
    /\ r_pc[p] = "files"
    /\ IF r_file[p] >= MaxFiles
       THEN /\ r_pc' = [r_pc EXCEPT ![p] = "finish"]
            /\ UNCHANGED <<r_file, r_wrote, index_db>>
       ELSE \E failed \in BOOLEAN :
               LET f == r_file[p] + 1
               IN /\ r_file' = [r_file EXCEPT ![p] = f]
                  /\ IF failed
                     THEN /\ r_pc' = [r_pc EXCEPT ![p] = "finish"]
                          /\ UNCHANGED <<r_wrote, index_db>>
                     ELSE /\ r_pc' = r_pc
                          /\ index_db' = index_db \cup {f}
                          /\ r_wrote' = [r_wrote EXCEPT
                                           ![p] = @ \/ f \notin index_db]
    /\ UNCHANGED <<indexing_active, r_calls, r_skipped, r_read>>
    /\ UNCHANGED <<coreVars, usageVars, llmVars, extVars>>

\* set_indexing_active(false), index:done, return of the result.
ReindexFinish(p) ==
    /\ r_pc[p] = "finish"
    /\ indexing_active' = FALSE
    /\ r_pc' = [r_pc EXCEPT ![p] = "returned"]
    /\ UNCHANGED <<r_calls, r_file, r_skipped, r_read, r_wrote, index_db>>
    /\ UNCHANGED <<coreVars, usageVars, llmVars, extVars>>

\* ------------------------------------------- VectorDb (adapters/vectordb)
\* Most chunks of one file.
MaxChunks == 2
\* Most mutating operations one connection performs.
MaxStoreOps == 2

Paths == {"a.md", "b.md"}
Hashes == {"h1", "h2"}

\* The rows of the tables chunks, chunks_fts, files, messages and the number
\* of times the conversation's updated_at was set.  A chunks_fts row is named
\* by the chunk whose rowid it carries.
EmptyRows ==
    [chunks |-> {}, chunks_fts |-> {}, files |-> {}, messages |-> 0,
     updated |-> 0]

ChunkRow(path, index, hash) ==
    [file_path |-> path, chunk_index |-> index, file_hash |-> hash]

FileRow(path, hash, count) ==
    [path |-> path, hash |-> hash, chunk_count |-> count]

\* DELETE FROM chunks_fts WHERE rowid IN (SELECT id FROM chunks WHERE file_path = ?1)
delete_chunks_fts(rows, path) ==
    [rows EXCEPT !.chunks_fts =
        {r \in @ : ~(r \in rows.chunks /\ r.file_path = path)}]

\* DELETE FROM chunks WHERE file_path = ?1
delete_chunks(rows, path) ==
    [rows EXCEPT !.chunks = {r \in @ : r.file_path # path}]

\* DELETE FROM files WHERE path = ?1
delete_files(rows, path) ==
    [rows EXCEPT !.files = {r \in @ : r.path # path}]

\* INSERT INTO chunks (...)
insert_chunks(rows, path, index, hash) ==
    [rows EXCEPT !.chunks = @ \cup {ChunkRow(path, index, hash)}]

\* INSERT INTO chunks_fts(rowid, ...) with the rowid of the chunk just inserted
insert_chunks_fts(rows, path, index, hash) ==
    [rows EXCEPT !.chunks_fts = @ \cup {ChunkRow(path, index, hash)}]

\* INSERT OR REPLACE INTO files (path, hash, chunk_count, indexed_at)
upsert_files(rows, path, hash, count) ==
    [rows EXCEPT !.files =
        {r \in @ : r.path # path} \cup {FileRow(path, hash, count)}]

\* INSERT INTO messages (...)
insert_message(rows) == [rows EXCEPT !.messages = @ + 1]

\* UPDATE conversations SET updated_at = datetime('now') WHERE id = ?1
update_conversation(rows) == [rows EXCEPT !.updated = @ + 1]

\* The rows a connection's statements act on: those of an open transaction,
\* or the database itself when the statements are executed on self.conn.
no_transaction(rows) == [open |-> FALSE, rows |-> rows]

transaction(rows) == [open |-> TRUE, rows |-> rows]

conn_execute(rows) == [open |-> FALSE, rows |-> rows]

NoArg == [op |-> "none", path |-> "", hash |-> "", count |-> 0]

NoSeen == [op |-> "none", path |-> "", rows |-> EmptyRows,
           before |-> EmptyRows, target |-> EmptyRows]

\* The rows of the three index tables that belong to one path.
PathRows(rows, path) ==
    [chunks |-> {r \in rows.chunks : r.file_path = path},
     chunks_fts |-> {r \in rows.chunks_fts : r.file_path = path},
     files |-> {r \in rows.files : r.path = path},
     messages |-> 0, updated |-> 0]

\* What replace_file_chunks_atomically(path, hash, chunks) leaves when every
\* one of its statements has been executed.
replaced_rows(rows, path, hash, count) ==
    LET cleared == delete_files(delete_chunks(delete_chunks_fts(rows, path), path), path)
        added == {ChunkRow(path, i, hash) : i \in 1..count}
    IN  upsert_files([cleared EXCEPT !.chunks = @ \cup added,
                                     !.chunks_fts = @ \cup added],
                     path, hash, count)

\* What remove_file_chunks(path) leaves when every statement has been executed.
removed_rows(rows, path) ==
    delete_files(delete_chunks(delete_chunks_fts(rows, path), path), path)

\* What save_message leaves when both statements have been executed.
saved_rows(rows) == update_conversation(insert_message(rows))

StoreIdle ==
    /\ db = EmptyRows
    /\ tx = conn_execute(EmptyRows)
    /\ w_op = "none"
    /\ w_pc = "idle"
    /\ w_arg = NoArg
    /\ w_i = 0
    /\ w_before = EmptyRows
    /\ w_target = EmptyRows
    /\ w_done = "none"
    /\ w_ops = 0
    /\ rd_seen = NoSeen

\* tx.execute / self.conn.execute: the statement changes the rows of the open
\* transaction, and the database itself when there is none.
Execute(new_rows) ==
    /\ tx' = [tx EXCEPT !.rows = new_rows]
    /\ db' = IF tx.open THEN db ELSE new_rows

StoreFrame ==
    UNCHANGED <<coreVars, usageVars, llmVars, idxVars, convVars, searchVars,
                compVars,
                   batchVars,
                   watchVars,
                   createVars,
                   chunkVars>>

\* replace_file_chunks_atomically: table_exists, self.conn.transaction().
ReplaceBegin ==
    /\ w_op = "none"
    /\ w_ops < MaxStoreOps
    /\ \E path \in Paths, hash \in Hashes, count \in 0..MaxChunks :
          /\ w_arg' = [op |-> "replace", path |-> path, hash |-> hash, count |-> count]
          /\ w_target' = replaced_rows(db, path, hash, count)
    /\ w_op' = "replace"
    /\ w_pc' = "delete_fts"
    /\ w_i' = 0
    /\ w_ops' = w_ops + 1
    /\ w_before' = db
    /\ w_done' = "none"
    /\ tx' = transaction(db)
    /\ UNCHANGED <<db, rd_seen>>
    /\ StoreFrame

\* remove_file_chunks: its statements are executed on self.conn.
RemoveBegin ==
    /\ w_op = "none"
    /\ w_ops < MaxStoreOps
    /\ \E path \in Paths :
          /\ w_arg' = [op |-> "remove", path |-> path, hash |-> "", count |-> 0]
          /\ w_target' = removed_rows(db, path)
    /\ w_op' = "remove"
    /\ w_pc' = "delete_fts"
    /\ w_i' = 0
    /\ w_ops' = w_ops + 1
    /\ w_before' = db
    /\ w_done' = "none"
    /\ tx' = conn_execute(db)
    /\ UNCHANGED <<db, rd_seen>>
    /\ StoreFrame

\* save_message: its statements are executed on self.conn.
SaveMessageBegin ==
    /\ w_op = "none"
    /\ w_ops < MaxStoreOps
    /\ w_arg' = [NoArg EXCEPT !.op = "save_message"]
    /\ w_target' = saved_rows(db)
    /\ w_op' = "save_message"
    /\ w_pc' = "insert_message"
    /\ w_i' = 0
    /\ w_ops' = w_ops + 1
    /\ w_before' = db
    /\ w_done' = "none"
    /\ tx' = conn_execute(db)
    /\ UNCHANGED <<db, rd_seen>>
    /\ StoreFrame

\* The three DELETE statements of replace_file_chunks_atomically and of
\* remove_file_chunks.
DeleteStatement ==
    /\ w_op \in {"replace", "remove"}
    /\ \/ /\ w_pc = "delete_fts"
          /\ Execute(delete_chunks_fts(tx.rows, w_arg.path))
          /\ w_pc' = "delete_chunks"
          /\ UNCHANGED <<w_op, w_done>>
       \/ /\ w_pc = "delete_chunks"
          /\ Execute(delete_chunks(tx.rows, w_arg.path))
          /\ w_pc' = "delete_files"
          /\ UNCHANGED <<w_op, w_done>>
       \/ /\ w_pc = "delete_files"
          /\ Execute(delete_files(tx.rows, w_arg.path))
          /\ IF w_op = "replace"
                THEN /\ w_pc' = IF w_arg.count = 0 THEN "upsert" ELSE "insert_chunk"
                     /\ UNCHANGED <<w_op, w_done>>
                ELSE /\ w_pc' = "idle"
                     /\ w_op' = "none"
                     /\ w_done' = "ok"
    /\ UNCHANGED <<w_arg, w_i, w_before, w_target, w_ops, rd_seen>>
    /\ StoreFrame

\* for chunk in chunks: INSERT INTO chunks, then INSERT INTO chunks_fts.
InsertStatement ==
    /\ w_op = "replace"
    /\ \/ /\ w_pc = "insert_chunk"
          /\ Execute(insert_chunks(tx.rows, w_arg.path, w_i + 1, w_arg.hash))
          /\ w_pc' = "insert_fts"
          /\ w_i' = w_i
       \/ /\ w_pc = "insert_fts"
          /\ Execute(insert_chunks_fts(tx.rows, w_arg.path, w_i + 1, w_arg.hash))
          /\ w_i' = w_i + 1
          /\ w_pc' = IF w_i + 1 = w_arg.count THEN "upsert" ELSE "insert_chunk"
    /\ UNCHANGED <<w_op, w_arg, w_before, w_target, w_done, w_ops, rd_seen>>
    /\ StoreFrame

\* INSERT OR REPLACE INTO files.
UpsertStatement ==
    /\ w_op = "replace"
    /\ w_pc = "upsert"
    /\ Execute(upsert_files(tx.rows, w_arg.path, w_arg.hash, w_arg.count))
    /\ w_pc' = "commit"
    /\ UNCHANGED <<w_op, w_arg, w_i, w_before, w_target, w_done, w_ops, rd_seen>>
    /\ StoreFrame

\* tx.commit(): the rows of the transaction become the database.
Commit ==
    /\ w_op = "replace"
    /\ w_pc = "commit"
    /\ db' = tx.rows
    /\ tx' = conn_execute(tx.rows)
    /\ w_pc' = "idle"
    /\ w_op' = "none"
    /\ w_done' = "ok"
    /\ UNCHANGED <<w_arg, w_i, w_before, w_target, w_ops, rd_seen>>
    /\ StoreFrame

\* The two statements of save_message.
SaveMessageStatement ==
    /\ w_op = "save_message"
    /\ \/ /\ w_pc = "insert_message"
          /\ Execute(insert_message(tx.rows))
          /\ w_pc' = "update_conversation"
          /\ UNCHANGED <<w_op, w_done>>
       \/ /\ w_pc = "update_conversation"
          /\ Execute(update_conversation(tx.rows))
          /\ w_pc' = "idle"
          /\ w_op' = "none"
          /\ w_done' = "ok"
    /\ UNCHANGED <<w_arg, w_i, w_before, w_target, w_ops, rd_seen>>
    /\ StoreFrame

\* A statement returns Err (`?`): the method returns; an open transaction is
\* dropped, which rolls it back; statements executed on self.conn stay.
StatementFails ==
    /\ w_op # "none"
    /\ tx' = conn_execute(db)
    /\ w_pc' = "idle"
    /\ w_op' = "none"
    /\ w_done' = "failed"
    /\ UNCHANGED <<db, w_arg, w_i, w_before, w_target, w_ops, rd_seen>>
    /\ StoreFrame

\* A query of another connection: it reads the database, never the rows of a
\* transaction that is still open.
ReaderQuery ==
    /\ \E path \in Paths :
          rd_seen' = [op |-> w_op, path |-> path, rows |-> PathRows(db, path),
                      before |-> PathRows(w_before, path),
                      target |-> PathRows(w_target, path)]
    /\ UNCHANGED <<db, tx, w_op, w_pc, w_arg, w_i, w_before, w_target, w_done, w_ops>>
    /\ StoreFrame

\* ------------------------------------- conversations (adapters/vectordb)
\* Most conversations in the table.
MaxConversations == 3

ConversationIds == 1..MaxConversations

NoConversation == [exists |-> FALSE, archived |-> FALSE, pinned |-> FALSE]

ConvIdle ==
    /\ conversations = [id \in ConversationIds |-> NoConversation]
    /\ c_result = "none"

ConvFrame ==
    UNCHANGED <<coreVars, usageVars, llmVars, idxVars, storeVars, searchVars,
                compVars,
                   batchVars,
                   watchVars,
                   createVars,
                   chunkVars>>

\* INSERT INTO conversations (title, archived, pinned, ...) VALUES (?1, 0, 0, ...)
create_conversation(id) ==
    /\ ~conversations[id].exists
    /\ \A other \in ConversationIds : other < id => conversations[other].exists
    /\ conversations' = [conversations EXCEPT
                            ![id] = [exists |-> TRUE, archived |-> FALSE,
                                     pinned |-> FALSE]]
    /\ c_result' = "ok"
    /\ ConvFrame

\* UPDATE conversations SET pinned = ?1 WHERE id = ?2
pinned_row(row, pinned) == [row EXCEPT !.pinned = pinned]

\* UPDATE conversations SET archived = 1, pinned = 0 WHERE id = ?1, or
\* UPDATE conversations SET archived = 0, sort_order = ... WHERE id = ?1
archived_row(row, archived) ==
    IF archived
        THEN [row EXCEPT !.archived = TRUE, !.pinned = FALSE]
        ELSE [row EXCEPT !.archived = FALSE]

\* archive_conversation / unarchive_conversation
set_conversation_archived(id, archived) ==
    /\ IF conversations[id].exists
          THEN /\ conversations' = [conversations EXCEPT
                                       ![id] = archived_row(@, archived)]
               /\ c_result' = "ok"
          ELSE /\ c_result' = "not_found"
               /\ UNCHANGED conversations
    /\ ConvFrame

\* pin_conversation / unpin_conversation
set_conversation_pinned(id, pinned) ==
    /\ IF conversations[id].exists
          THEN /\ conversations' = [conversations EXCEPT
                                       ![id] = pinned_row(@, pinned)]
               /\ c_result' = "ok"
          ELSE /\ c_result' = "not_found"
               /\ UNCHANGED conversations
    /\ ConvFrame

\* ----------------------------------------- search_hybrid (adapters/vectordb)
\* Most calls of search_hybrid on the unchanged index.
MaxSearchCalls == 2
\* Most chunks a candidate list holds.
MaxCandidates == 3
\* The second argument of rrf_score.
RrfK == 60

\* (file_path, chunk_index) of the chunks of the index.
ChunkKeys == {"A", "B", "C"}

\* The sequences without repetition over a set.
Orders(S) ==
    {f \in [1..Cardinality(S) -> S] : \A i, j \in DOMAIN f : f[i] = f[j] => i = j}

CandidateLists ==
    UNION {Orders(S) : S \in {T \in SUBSET ChunkKeys : Cardinality(T) <= MaxCandidates}}

\* The common denominator of the scores 1 / (k + rank) of the ranks 1..MaxCandidates.
RECURSIVE RrfDenominator(_)
RrfDenominator(rank) ==
    IF rank = 0 THEN 1 ELSE (RrfK + rank) * RrfDenominator(rank - 1)

\* rrf_score(rank, k) = 1.0 / (k + rank), as a numerator over RrfDenominator.
rrf_score(rank, k) == RrfDenominator(MaxCandidates) \div (k + rank)

RankIn(list, key) == CHOOSE i \in DOMAIN list : list[i] = key

InList(list, key) == \E i \in DOMAIN list : list[i] = key

\* The score of the entry of `merged` for a key after both loops.
merged_score(vector, keyword, key) ==
    (IF InList(vector, key) THEN rrf_score(RankIn(vector, key), RrfK) ELSE 0)
    + (IF InList(keyword, key) THEN rrf_score(RankIn(keyword, key), RrfK) ELSE 0)

merged_keys(vector, keyword) ==
    {vector[i] : i \in DOMAIN vector} \cup {keyword[i] : i \in DOMAIN keyword}

\* One candidate of the result: the chunk with its retrieval_score
\* (<<>>: None).
Ranked(key, score) == [chunk |-> key, retrieval_score |-> score]

\* Vec::sort_by with b.score.partial_cmp(&a.score): a stable sort, highest
\* score first; equal scores keep the order they had.
RECURSIVE insert_stable(_, _)
insert_stable(sorted, item) ==
    IF sorted = <<>> THEN <<item>>
    ELSE IF Head(sorted).retrieval_score[1] >= item.retrieval_score[1]
            THEN <<Head(sorted)>> \o insert_stable(Tail(sorted), item)
            ELSE <<item>> \o sorted

RECURSIVE sort_by_score(_)
sort_by_score(items) ==
    IF items = <<>> THEN <<>>
    ELSE insert_stable(sort_by_score(SubSeq(items, 1, Len(items) - 1)),
                       items[Len(items)])

\* Vec::truncate / Iterator::take
truncate(list, limit) ==
    SubSeq(list, 1, IF Len(list) < limit THEN Len(list) ELSE limit)

\* search_hybrid, given the order in which merged.into_values() yields the
\* entries of the HashMap.
search_hybrid(vector, keyword, limit, into_values) ==
    IF keyword = <<>>
        THEN truncate([i \in DOMAIN vector |-> Ranked(vector[i], <<>>)], limit)
    ELSE IF vector = <<>>
        THEN truncate([i \in DOMAIN keyword |-> Ranked(keyword[i], <<>>)], limit)
    ELSE truncate(
            sort_by_score(
                [i \in DOMAIN into_values |->
                    Ranked(into_values[i],
                           <<merged_score(vector, keyword, into_values[i])>>)]),
            limit)

SearchIdle ==
    /\ s_vector = <<>>
    /\ s_keyword = <<>>
    /\ s_limit = 1
    /\ s_results = <<>>

\* One call of search_hybrid.  The iteration order of a std HashMap is
\* unspecified and its RandomState differs from one map to the next, so
\* into_values() may yield the entries in any order.
SearchHybrid ==
    /\ Len(s_results) < MaxSearchCalls
    /\ \E into_values \in Orders(merged_keys(s_vector, s_keyword)) :
          s_results' = Append(s_results,
                              search_hybrid(s_vector, s_keyword, s_limit, into_values))
    /\ UNCHANGED <<s_vector, s_keyword, s_limit>>
    /\ UNCHANGED <<coreVars, usageVars, llmVars, idxVars, storeVars, convVars,
                   compVars,
                   batchVars,
                   watchVars,
                   createVars,
                   chunkVars>>

\* ------------------------------------ maybe_compact_context on a history
\* Most messages of the history maybe_compact_context is called with.
MaxHistory == 9

\* The messages a history is made of after the instructions: a user message,
\* an assistant message with a tool call, a small and a large tool result.
HistoryMessages ==
    {Msg("user", UserChars, <<>>, 0, "", FALSE),
     Msg("assistant", 0, <<1>>, 0, "", FALSE),
     Msg("tool", SmallChars, <<>>, 1, "kb_search", TRUE),
     Msg("tool", BigChars, <<>>, 1, "kb_search", TRUE)}

\* A history: the instructions, then `rest`.
History(rest) == <<Msg("system", InstructionChars, <<>>, 0, "", FALSE)>> \o rest

CompactionIdle ==
    /\ k_pc = "start"
    /\ k_before = <<>>
    /\ k_messages = <<>>
    /\ k_compacted = FALSE
    /\ k_removed = 0

\* maybe_compact_context(messages, model): the early returns with
\* compacted = false, or the history rebuilt and compacted = true.
MaybeCompactContext ==
    /\ k_pc = "start"
    /\ k_pc' = "done"
    /\ IF compaction_triggered(k_messages, RunModel)
          THEN /\ \E summary_chars \in {SummaryChars, DefaultSummaryChars} :
                     k_messages' = compacted_messages(k_messages, summary_chars)
               /\ k_compacted' = TRUE
               /\ k_removed' = Cardinality(drop_indices(k_messages))
          ELSE /\ k_compacted' = FALSE
               /\ UNCHANGED <<k_messages, k_removed>>
    /\ UNCHANGED k_before
    /\ UNCHANGED <<coreVars, usageVars, llmVars, idxVars, storeVars, convVars,
                   searchVars,
                   batchVars,
                   watchVars,
                   createVars,
                   chunkVars>>

\* ------------------- two kb_create calls on one path (adapters/mcp/mod.rs)
\* The calls: tool batches of two runs on different conversations, each on
\* its own worker thread of the runtime. execute_kb_create is synchronous and
\* takes no lock, so the file operations of the two calls interleave.
CreateCalls == {1, 2}

CreateIdle ==
    /\ cc_file = "absent"
    /\ cc_pc = [c \in CreateCalls |-> "before"]
    /\ cc_content = [c \in CreateCalls |-> ""]
    /\ cc_after = [c \in CreateCalls |-> NoVerification]
    /\ cc_returned = [c \in CreateCalls |-> NoEnvelope]

CreateFrame ==
    UNCHANGED <<coreVars, usageVars, llmVars, idxVars, storeVars, convVars,
                searchVars, compVars, batchVars, watchVars, chunkVars>>

\* execute_kb_create returns `result`; ToolRegistry::execute enforces the
\* write verification on it and returns.
CreateReturns(c, result) ==
    /\ cc_returned' = [cc_returned EXCEPT ![c] =
                          enforce_registry_write_verification(
                              Permission("kb_create"), result)]
    /\ cc_pc' = [cc_pc EXCEPT ![c] = "returned"]

\* `before = read_note_verification(..)` and `if before.exists`.
CreateReadBefore(c) ==
    /\ cc_pc[c] = "before"
    /\ \E io_ok \in ReadOutcomes(cc_file) :
          IF ~io_ok
          THEN CreateReturns(c, error_envelope("note.md", "absent", NoHash,
                                               "verify_failed", TRUE))
          ELSE LET b == read_note_verification(cc_file) IN
               IF create_refused(b)
               THEN CreateReturns(c, with_proof(
                        error_envelope("note.md", "absent", b.hash,
                                       "file_exists", FALSE),
                        "true", NoHash, "absent"))
               ELSE /\ cc_pc' = [cc_pc EXCEPT ![c] = "write"]
                    /\ UNCHANGED cc_returned
    /\ UNCHANGED <<cc_file, cc_content, cc_after>>
    /\ CreateFrame

\* write_note(..): std::fs::write creates the file or truncates it.
CreateWriteNote(c) ==
    /\ cc_pc[c] = "write"
    /\ \E io_ok \in BOOLEAN :
          IF io_ok
          THEN /\ cc_file' = cc_content[c]
               /\ cc_pc' = [cc_pc EXCEPT ![c] = "readback"]
               /\ UNCHANGED cc_returned
          ELSE /\ CreateReturns(c, with_proof(
                      error_envelope("note.md", "absent", NoHash,
                                     "write_failed", TRUE),
                      "false", NoHash, "absent"))
               /\ UNCHANGED cc_file
    /\ UNCHANGED <<cc_content, cc_after>>
    /\ CreateFrame

\* `after = read_note_verification(..)`.
CreateReadAfter(c) ==
    /\ cc_pc[c] = "readback"
    /\ \E io_ok \in ReadOutcomes(cc_file) :
          IF io_ok
          THEN /\ cc_after' = [cc_after EXCEPT ![c] = read_note_verification(cc_file)]
               /\ cc_pc' = [cc_pc EXCEPT ![c] = "readback_content"]
               /\ UNCHANGED cc_returned
          ELSE /\ CreateReturns(c, with_proof(
                      error_envelope("note.md", "absent", NoHash,
                                     "verify_failed", TRUE),
                      "false", NoHash, "absent"))
               /\ UNCHANGED cc_after
    /\ UNCHANGED <<cc_file, cc_content>>
    /\ CreateFrame

\* `after_content = read_note(..).unwrap_or_default()`, readback_ok and the
\* envelope of the call.
CreateReadAfterContent(c) ==
    /\ cc_pc[c] = "readback_content"
    /\ \E io_ok \in ReadOutcomes(cc_file) :
          LET content == IF io_ok THEN read_note_or_default(cc_file) ELSE ""
              changed == diff_stats_changed("", content)
          IN CreateReturns(c,
                 IF readback_ok(cc_after[c], content, cc_content[c])
                 THEN build_write_result(
                          with_proof(
                              Envelope("true", "", FALSE, "note.md", "true",
                                       cc_after[c].hash),
                              Json(cc_after[c].exists), NoHash, changed),
                          "create", "false")
                 ELSE with_proof(
                          error_envelope("note.md", "false", cc_after[c].hash,
                                         "verify_mismatch", FALSE),
                          Json(cc_after[c].exists), NoHash, changed))
    /\ UNCHANGED <<cc_file, cc_content, cc_after>>
    /\ CreateFrame

\* ------------------------------- chunk_text (adapters/markdown/mod.rs)
\* Most words of the text, largest chunk_size and largest overlap.
MaxWords == 6
MaxChunkSize == 3
MaxOverlap == 4
\* Chunks the model keeps of a call; more than any returning call pushes.
MaxKeptChunks == 7
\* Width of usize in the model (64 in the build).
UsizeBits == 5

\* A text: text.is_empty() and text.split_whitespace().count().
Texts == {[empty |-> TRUE, words |-> 0]}
         \cup {[empty |-> FALSE, words |-> n] : n \in 0..MaxWords}

ChunkIdle ==
    /\ ch_pc = "begin"
    /\ ch_text = [empty |-> TRUE, words |-> 0]
    /\ ch_size = 1
    /\ ch_overlap = 0
    /\ ch_start = 0
    /\ ch_chunks = <<>>

ChunkFrame ==
    UNCHANGED <<coreVars, usageVars, llmVars, idxVars, storeVars, convVars,
                searchVars, compVars, batchVars, watchVars, createVars>>

\* chunks.push(chunk), for the chunks the model keeps.
push(chunks, words) ==
    IF Len(chunks) < MaxKeptChunks THEN Append(chunks, words) ELSE chunks

\* `end - overlap` on usize: the difference; on overflow the wrapped value
\* (release profile) or a panic (overflow checks on), written -1.
usize_sub(lhs, rhs) ==
    IF lhs >= rhs THEN {lhs - rhs} ELSE {lhs - rhs + 2^UsizeBits, -1}

\* chunk_text up to the loop: the two early returns.
ChunkTextBegin ==
    /\ ch_pc = "begin"
    /\ IF ch_text.empty
       THEN /\ ch_pc' = "done"
            /\ UNCHANGED ch_chunks
       ELSE IF ch_text.words <= ch_size
       THEN /\ ch_pc' = "done"
            /\ ch_chunks' = <<ch_text.words>>
       ELSE /\ ch_pc' = "loop"
            /\ UNCHANGED ch_chunks
    /\ UNCHANGED <<ch_text, ch_size, ch_overlap, ch_start>>
    /\ ChunkFrame

\* One iteration of `while start < words.len()`.
ChunkTextLoop ==
    /\ ch_pc = "loop"
    /\ IF ch_start < ch_text.words
       THEN LET end == Min(ch_start + ch_size, ch_text.words) IN
            /\ ch_chunks' = push(ch_chunks, end - ch_start)
            /\ IF end >= ch_text.words
               THEN /\ ch_pc' = "done"
                    /\ UNCHANGED ch_start
               ELSE \E next \in usize_sub(end, ch_overlap) :
                       IF next = -1
                       THEN /\ ch_pc' = "panicked"
                            /\ UNCHANGED ch_start
                       ELSE /\ ch_start' = next
                            /\ UNCHANGED ch_pc
       ELSE /\ ch_pc' = "done"
            /\ UNCHANGED <<ch_start, ch_chunks>>
    /\ UNCHANGED <<ch_text, ch_size, ch_overlap>>
    /\ ChunkFrame

\* ----------------------------------- one tool batch on one note (run.rs)
\* Most tool calls of the batch.
MaxBatchCalls == 3

BatchCall(name, content) == [name |-> name, content |-> content]

\* The calls the model may place in the batch, all with the same `path`.
BatchCalls ==
    {BatchCall("kb_read", "")}
    \cup {BatchCall(n, c) : n \in {"kb_create", "kb_update"},
                            c \in Contents \ {""}}

\* The result of a call: ok, error.code and result.content of its envelope.
BatchResult(st, ok, code, content) ==
    [st |-> st, ok |-> ok, code |-> code, content |-> content]

BatchIdle ==
    /\ b_pc = "reads"
    /\ b_calls = <<>>
    /\ b_file = "absent"
    /\ b_results = <<>>
    /\ b_messages = <<>>

\* execute_kb_read: not_found when read_note fails, else the content.
execute_kb_read(f) ==
    IF f = "absent" THEN BatchResult("done", FALSE, "not_found", "")
    ELSE BatchResult("done", TRUE, "", f)

\* Whether execute_kb_create / execute_kb_update refuses the call.
write_refused(name, f) ==
    IF name = "kb_create" THEN create_refused(read_note_verification(f))
    ELSE update_refused(read_note_verification(f))

\* execute_kb_create / execute_kb_update on a vault no one else writes and
\* whose reads and writes succeed: file_exists or not_found, else ok.
execute_kb_write(name, f, content) ==
    IF write_refused(name, f)
    THEN BatchResult("done", FALSE,
                     IF name = "kb_create" THEN "file_exists" ELSE "not_found",
                     "")
    ELSE BatchResult("done", TRUE, "", content)

\* The note after the call: write_note(content) unless the call is refused
\* (the no-op kb_update leaves the same content).
file_after_write(name, f, content) ==
    IF write_refused(name, f) THEN f ELSE content

BatchPending(reads) ==
    {i \in DOMAIN b_results :
        /\ b_results[i].st = "todo"
        /\ is_write_tool(b_calls[i].name) = ~reads}

\* join_all(read_futures): kb_read does not suspend, so the futures complete
\* one after the other in the order of the calls.
BatchRead ==
    /\ b_pc = "reads"
    /\ BatchPending(TRUE) # {}
    /\ LET i == next_write(BatchPending(TRUE))
       IN b_results' = [b_results EXCEPT ![i] = execute_kb_read(b_file)]
    /\ UNCHANGED <<b_pc, b_calls, b_file, b_messages>>
    /\ UNCHANGED <<coreVars, usageVars, llmVars, idxVars, storeVars, convVars,
                   searchVars, compVars,
                   watchVars,
                   createVars,
                   chunkVars>>

\* join_all(..).await returns: the loop over the writes begins.
BatchReadsJoined ==
    /\ b_pc = "reads"
    /\ BatchPending(TRUE) = {}
    /\ b_pc' = "writes"
    /\ UNCHANGED <<b_calls, b_file, b_results, b_messages>>
    /\ UNCHANGED <<coreVars, usageVars, llmVars, idxVars, storeVars, convVars,
                   searchVars, compVars,
                   watchVars,
                   createVars,
                   chunkVars>>

\* `for (idx, tc) in &writes`: the next write runs to its end.
BatchWrite ==
    /\ b_pc = "writes"
    /\ BatchPending(FALSE) # {}
    /\ LET i == next_write(BatchPending(FALSE))
           c == b_calls[i]
       IN /\ b_results' = [b_results EXCEPT
                              ![i] = execute_kb_write(c.name, b_file, c.content)]
          /\ b_file' = file_after_write(c.name, b_file, c.content)
    /\ UNCHANGED <<b_pc, b_calls, b_messages>>
    /\ UNCHANGED <<coreVars, usageVars, llmVars, idxVars, storeVars, convVars,
                   searchVars, compVars,
                   watchVars,
                   createVars,
                   chunkVars>>

\* The outcomes of the given positions, in ascending position.
RECURSIVE BatchOutcomes(_)
BatchOutcomes(indices) ==
    IF indices = {} THEN <<>>
    ELSE LET i == CHOOSE x \in indices : \A y \in indices : x <= y
         IN <<[index |-> i, ok |-> b_results[i].ok, code |-> b_results[i].code,
               content |-> b_results[i].content]>>
            \o BatchOutcomes(indices \ {i})

\* read_outcomes chained with write_outcomes, sorted by index, and one
\* tool-role message pushed per outcome.
BatchMerge ==
    /\ b_pc = "writes"
    /\ BatchPending(FALSE) = {}
    /\ b_messages' =
          sort_by_key(BatchOutcomes(ReadIndices(b_calls))
                      \o BatchOutcomes(DOMAIN b_calls \ ReadIndices(b_calls)))
    /\ b_pc' = "done"
    /\ UNCHANGED <<b_calls, b_file, b_results>>
    /\ UNCHANGED <<coreVars, usageVars, llmVars, idxVars, storeVars, convVars,
                   searchVars, compVars,
                   watchVars,
                   createVars,
                   chunkVars>>

\* --------------------------- the vault watcher (commands/watcher.rs)
\* Most changes made to the note, and so most tasks the watcher spawns.
MaxChanges == 3
WatcherTasks == 1..MaxChanges

WatcherIdle ==
    /\ wt_version = 0
    /\ wt_event = FALSE
    /\ wt_pc = [t \in WatcherTasks |-> "none"]
    /\ wt_read = [t \in WatcherTasks |-> 0]
    /\ wt_indexed = 0

WatcherFrame ==
    /\ UNCHANGED <<r_pc, r_calls, r_file, r_skipped, r_read, r_wrote, index_db>>
    /\ UNCHANGED <<coreVars, usageVars, llmVars, storeVars, convVars,
                   searchVars, compVars, batchVars, createVars, chunkVars>>

\* The note is modified on disk; the debouncer delivers an event for it,
\* one event for all the changes the loop has not received yet.
NoteChanges ==
    /\ wt_version < MaxChanges
    /\ wt_version' = wt_version + 1
    /\ wt_event' = TRUE
    /\ UNCHANGED <<wt_pc, wt_read, wt_indexed, indexing_active>>
    /\ WatcherFrame

\* The loop of the watcher thread: events_rx.recv_timeout yields an event
\* with a markdown path, and run_reindex_internal is spawned on the runtime.
WatcherSpawns ==
    /\ wt_event
    /\ \E t \in WatcherTasks :
          /\ wt_pc[t] = "none"
          /\ \A u \in WatcherTasks : u < t => wt_pc[u] # "none"
          /\ wt_pc' = [wt_pc EXCEPT ![t] = "check"]
    /\ wt_event' = FALSE
    /\ UNCHANGED <<wt_version, wt_read, wt_indexed, indexing_active>>
    /\ WatcherFrame

\* if is_indexing_active() { return Ok(()) }
WatcherTaskCheck(t) ==
    /\ wt_pc[t] = "check"
    /\ wt_pc' = [wt_pc EXCEPT ![t] = IF is_indexing_active(indexing_active)
                                     THEN "returned" ELSE "set"]
    /\ UNCHANGED <<wt_version, wt_event, wt_read, wt_indexed, indexing_active>>
    /\ WatcherFrame

\* set_indexing_active(true)
WatcherTaskSetActive(t) ==
    /\ wt_pc[t] = "set"
    /\ indexing_active' = TRUE
    /\ wt_pc' = [wt_pc EXCEPT ![t] = "read"]
    /\ UNCHANGED <<wt_version, wt_event, wt_read, wt_indexed>>
    /\ WatcherFrame

\* The loop over the files: read_to_string and file_hash of the note; when
\* file_is_current the note is skipped, else its chunks are embedded.
WatcherTaskRead(t) ==
    /\ wt_pc[t] = "read"
    /\ wt_read' = [wt_read EXCEPT ![t] = wt_version]
    /\ wt_pc' = [wt_pc EXCEPT ![t] = IF wt_indexed = wt_version
                                     THEN "finish" ELSE "replace"]
    /\ UNCHANGED <<wt_version, wt_event, wt_indexed, indexing_active>>
    /\ WatcherFrame

\* The embedding calls succeeded: replace_file_chunks_atomically with the
\* hash of what was read.
WatcherTaskReplace(t) ==
    /\ wt_pc[t] = "replace"
    /\ wt_indexed' = wt_read[t]
    /\ wt_pc' = [wt_pc EXCEPT ![t] = "finish"]
    /\ UNCHANGED <<wt_version, wt_event, wt_read, indexing_active>>
    /\ WatcherFrame

\* set_indexing_active(false), index:done.
WatcherTaskFinish(t) ==
    /\ wt_pc[t] = "finish"
    /\ indexing_active' = FALSE
    /\ wt_pc' = [wt_pc EXCEPT ![t] = "returned"]
    /\ UNCHANGED <<wt_version, wt_event, wt_read, wt_indexed>>
    /\ WatcherFrame

\* ---------------------------------------------------------- chat_stream
\* An error message is modelled by the set of the markers it contains
\* (lowercased); the classifiers test containment as the source does.
RetriableMarkers ==
    {"429", "500", "502", "503", "504", "timeout", "timed out", "temporar",
     "rate limit"}

AuthMarkers == {"401", "403", "unauthorized", "forbidden", "invalid api key"}

is_retriable_provider_error(message) == message \cap RetriableMarkers # {}

is_non_retriable_auth_error(message) == message \cap AuthMarkers # {}

is_tool_routing_unsupported_error(message) ==
    \/ "no endpoints found that support tool use" \in message
    \/ ("tool use" \in message /\ "provider-selection" \in message)

\* A classifier that retries whatever carries a retriable marker.
should_retry_any_retriable(message) == is_retriable_provider_error(message)

should_retry_provider_error(message) ==
    IF is_non_retriable_auth_error(message)
       \/ is_tool_routing_unsupported_error(message)
    THEN FALSE
    ELSE is_retriable_provider_error(message)

\* Messages a provider may fail with: "HTTP 503 service unavailable", a rate
\* limit, a 401 wrapped with a 503, the OpenRouter tool-routing error wrapped
\* in a 500, a timeout behind a 403 Forbidden, and a message without markers.
ErrorMessages ==
    {{"503"},
     {"429", "rate limit"},
     {"401", "unauthorized", "503"},
     {"500", "no endpoints found that support tool use", "tool use",
      "provider-selection"},
     {"403", "forbidden", "timed out"},
     {}}

\* retry_delays_secs = [1, 2, 4]
retry_delays_secs == <<1, 2, 4>>
max_attempts == Len(retry_delays_secs) + 1

\* retry_delays_secs.get(attempt).copied().unwrap_or(4), attempt from 0.
retry_delay(attempt) ==
    IF attempt + 1 <= Len(retry_delays_secs) THEN retry_delays_secs[attempt + 1]
    ELSE 4

PrimaryModelId == "openai:gpt-5"
OtherModelId == "anthropic:claude-sonnet"

\* Provider ids as resolve_llm derives them from the model ids.
ProviderOf(model_id) ==
    IF model_id = PrimaryModelId THEN "openai" ELSE "anthropic"

NoResult == [kind |-> "none", primary |-> {}, fallback |-> {}, why |-> ""]
OkResult == [kind |-> "ok", primary |-> {}, fallback |-> {}, why |-> ""]

\* An Err of chat_stream: the failures its message quotes, and the wording.
ErrResult(primary, fallback, why) ==
    [kind |-> "err", primary |-> primary, fallback |-> fallback, why |-> why]

Call(phase, at, st, msg) ==
    [phase |-> phase, at |-> at, st |-> st, msg |-> msg]

Retry(phase, provider, attempt, retry_in_ms, error, at) ==
    [kind |-> "Retry", phase |-> phase, provider |-> provider,
     attempt |-> attempt, max_attempts |-> max_attempts,
     retry_in_ms |-> retry_in_ms, error |-> error, at |-> at,
     from_model_id |-> "", to_model_id |-> ""]

Fallback(from, to, reason, at) ==
    [kind |-> "Fallback", phase |-> "primary", provider |-> "",
     attempt |-> 0, max_attempts |-> 0, retry_in_ms |-> 0, error |-> reason,
     at |-> at, from_model_id |-> from, to_model_id |-> to]

LlmIdle ==
    /\ l_pc = "start"
    /\ l_phase = "primary"
    /\ l_attempt = 0
    /\ l_now = 0
    /\ l_wake_at = 0
    /\ l_calls = <<>>
    /\ l_events = <<>>
    /\ l_tx = <<>>
    /\ l_read = 0
    /\ l_primary_error = {}
    /\ l_result = NoResult
    /\ l_tools = FALSE
    /\ l_fallback_id = ""

ExtIdle == StoreIdle /\ ConvIdle /\ SearchIdle /\ CompactionIdle
    /\ BatchIdle
    /\ WatcherIdle
    /\ CreateIdle
    /\ ChunkIdle

AuxIdle == UsageIdle /\ LlmIdle /\ ReindexIdle /\ ExtIdle

\* chat_stream up to the call of run_chat_with_retries for the primary:
\* resolve_llm, supports_tools, supports_streaming.
ChatStreamBegin ==
    /\ l_pc = "start"
    /\ \E refusal \in {"none", "unresolved", "no_streaming"}
                      \cup (IF l_tools THEN {"no_tools"} ELSE {}) :
          IF refusal = "none"
          THEN /\ l_pc' = "call"
               /\ UNCHANGED l_result
          ELSE /\ l_pc' = "done"
               /\ l_result' = ErrResult({}, {}, refusal)
    /\ UNCHANGED <<l_phase, l_attempt, l_now, l_wake_at, l_calls, l_events,
                   l_primary_error, l_tools, l_fallback_id>>
    /\ UNCHANGED <<l_tx, l_read>>
    /\ UNCHANGED <<coreVars, usageVars, idxVars, extVars>>

ProviderResults ==
    {[ok |-> TRUE, msg |-> {}]} \cup {[ok |-> FALSE, msg |-> m] : m \in ErrorMessages}

\* primary_error as the Err arm of chat_stream words it.
primary_error_of(message) ==
    IF l_tools /\ is_tool_routing_unsupported_error(message)
    THEN message \cup {"tool use", "choose a tool-capable model"}
    ELSE message

CurrentModelId == IF l_phase = "primary" THEN PrimaryModelId ELSE l_fallback_id

\* Most Text and ToolCall events the attempts of one chat_stream send.
MaxTxEvents == 2

\* What one provider.chat sends on its clone of tx before it returns: the
\* providers send Text deltas and ToolCall events while they read the
\* response stream, and return Err when a later chunk or SSE event fails.
AttemptSends(r) ==
    {<<>>, <<"Text">>}
    \cup (IF l_tools THEN {<<"ToolCall">>, <<"Text", "ToolCall">>} ELSE {})

\* A StreamEvent on the channel, with how the provider.chat that sent it
\* returned afterwards.
TxEvent(kind, attempt_ok) == [kind |-> kind, attempt_ok |-> attempt_ok]

\* One pass of the loop of run_chat_with_retries: provider.chat and the match
\* on its result, up to the return or to the sleep.
ProviderChat ==
    /\ l_pc = "call"
    /\ \E r \in ProviderResults :
          /\ \E sent \in AttemptSends(r) :
                /\ Len(l_tx) + Len(sent) <= MaxTxEvents
                /\ l_tx' = l_tx \o [i \in 1..Len(sent) |->
                                       TxEvent(sent[i], r.ok)]
          /\ l_calls' = Append(l_calls,
                               Call(l_phase, l_now,
                                    IF r.ok THEN "ok" ELSE "err", r.msg))
          /\ IF r.ok
             THEN /\ l_pc' = "done"
                  /\ l_result' = OkResult
                  /\ UNCHANGED <<l_events, l_wake_at, l_primary_error>>
             ELSE IF ~should_retry_provider_error(r.msg)
                     \/ l_attempt + 1 >= max_attempts
             THEN /\ UNCHANGED <<l_events, l_wake_at>>
                  /\ IF l_phase = "primary"
                     THEN /\ l_pc' = "decide"
                          /\ l_primary_error' = primary_error_of(r.msg)
                          /\ UNCHANGED l_result
                     ELSE /\ l_pc' = "done"
                          /\ l_result' = ErrResult(l_primary_error, r.msg,
                                                   "primary_and_fallback")
                          /\ UNCHANGED l_primary_error
             ELSE /\ l_events' =
                        Append(l_events,
                               Retry(l_phase, ProviderOf(CurrentModelId),
                                     l_attempt + 1,
                                     retry_delay(l_attempt) * 1000, r.msg,
                                     l_now))
                  /\ l_wake_at' = l_now + retry_delay(l_attempt)
                  /\ l_pc' = "sleep"
                  /\ UNCHANGED <<l_result, l_primary_error>>
    /\ UNCHANGED <<l_phase, l_attempt, l_now, l_tools, l_fallback_id, l_read>>
    /\ UNCHANGED <<coreVars, usageVars, idxVars, extVars>>

\* The streaming loop of Agent::run receives the next event of the channel:
\* text_response.push_str(&text) or tool_calls.push(tc).
RunReceives ==
    /\ l_read < Len(l_tx)
    /\ l_read' = l_read + 1
    /\ UNCHANGED <<l_pc, l_phase, l_attempt, l_now, l_wake_at, l_calls,
                   l_events, l_tx, l_primary_error, l_result, l_tools,
                   l_fallback_id>>
    /\ UNCHANGED <<coreVars, usageVars, idxVars, extVars>>

\* tool_calls of the iteration: the ToolCall events received, in order.
buffered_tool_calls ==
    SelectSeq(SubSeq(l_tx, 1, l_read), LAMBDA e : e.kind = "ToolCall")

\* text_response of the iteration: the Text deltas received, in order.
buffered_text ==
    SelectSeq(SubSeq(l_tx, 1, l_read), LAMBDA e : e.kind = "Text")

\* One second of sleep(Duration::from_secs(delay)) passes.
SleepTick ==
    /\ l_pc = "sleep"
    /\ l_now < l_wake_at
    /\ l_now' = l_now + 1
    /\ UNCHANGED <<l_pc, l_phase, l_attempt, l_wake_at, l_calls, l_events,
                   l_primary_error, l_result, l_tools, l_fallback_id>>
    /\ UNCHANGED <<l_tx, l_read>>
    /\ UNCHANGED <<coreVars, usageVars, idxVars, extVars>>

\* The sleep is over: the loop goes to its next attempt.
SleepOver ==
    /\ l_pc = "sleep"
    /\ l_now >= l_wake_at
    /\ l_attempt' = l_attempt + 1
    /\ l_pc' = "call"
    /\ UNCHANGED <<l_phase, l_now, l_wake_at, l_calls, l_events,
                   l_primary_error, l_result, l_tools, l_fallback_id>>
    /\ UNCHANGED <<l_tx, l_read>>
    /\ UNCHANGED <<coreVars, usageVars, idxVars, extVars>>

\* A gate that takes any configured fallback.
fallback_any_configured(fallback_model_id, model_id) == fallback_model_id # ""

\* `if let Some(fallback_model_id)` and `fallback_model_id == model_id`.
fallback_differs(fallback_model_id, model_id) ==
    fallback_model_id # "" /\ fallback_model_id # model_id

\* The Err arm of chat_stream after the primary failed: the fallback gate,
\* resolve_llm, the capabilities, the credential, Recovery::Fallback.
FallbackDecide ==
    /\ l_pc = "decide"
    /\ IF ~fallback_differs(l_fallback_id, PrimaryModelId)
       THEN /\ l_pc' = "done"
            /\ l_result' = ErrResult(l_primary_error, {}, "primary")
            /\ UNCHANGED <<l_phase, l_attempt, l_events>>
       ELSE \E obstacle \in {"none", "unresolved", "no_streaming", "no_credential"}
                            \cup (IF l_tools THEN {"no_tools"} ELSE {}) :
               IF obstacle = "none"
               THEN /\ l_events' = Append(l_events,
                                          Fallback(PrimaryModelId, l_fallback_id,
                                                   l_primary_error, l_now))
                    /\ l_phase' = "fallback"
                    /\ l_attempt' = 0
                    /\ l_pc' = "call"
                    /\ UNCHANGED l_result
               ELSE /\ l_pc' = "done"
                    /\ l_result' =
                          ErrResult(l_primary_error, {},
                                    IF obstacle \in {"no_tools", "no_streaming"}
                                    THEN obstacle ELSE "primary")
                    /\ UNCHANGED <<l_phase, l_attempt, l_events>>
    /\ UNCHANGED <<l_now, l_wake_at, l_calls, l_primary_error, l_tools,
                   l_fallback_id>>
    /\ UNCHANGED <<l_tx, l_read>>
    /\ UNCHANGED <<coreVars, usageVars, idxVars, extVars>>

Init == RtInit /\ RunInit /\ ToolIdle /\ file = "absent" /\ VaultIdle /\ AuxIdle

Next ==
    \/ SpawnTakeToken
    \/ SpawnRegister
    \/ UserCancels
    \/ TaskEnds
    \/ AgentRunBegin
    \/ LoopTop
    \/ ProducerSend
    \/ ProducerFinish
    \/ RecvEvent
    \/ RecvClosed
    \/ RecvTimeout
    \/ Join
    \/ PostStream
    \/ \E i \in 1..MaxBatch : ReadFinish(i)
    \/ WriteExec
    \/ AfterBatch
    \/ CompactFinish
    \/ TaskCancelBranch
    \/ TaskBodyReturns
    \/ TimePasses

Spec == Init /\ [][Next]_vars

\* ================================================= properties of one run
TerminalEvents == {i \in 1..Len(run_states) : run_states[i].state \in TerminalStates}

\* Agent::run was entered: its first statement emitted `accepted`.
RunStarted == run_states # <<>>

\* The run future is over: it returned, or select! dropped it.
RunOver == pc \in {"returned", "dropped"}

LastRunState == run_states[Len(run_states)]

\* C1: once a started run is over, whether it returned or was cancelled or
\* superseded, exactly one agent:run_state with a terminal state was emitted
\* and it is the last agent:run_state of the run.
C1_ExactlyOneTerminalRunState ==
    (RunStarted /\ RunOver) =>
        /\ Cardinality(TerminalEvents) = 1
        /\ LastRunState.state \in TerminalStates

\* C2: a started run that the cancel branch ended has emitted a terminal
\* agent:run_state `cancelled` and its ledger row is finished with status
\* `cancelled`.
C2_CancelledRunIsFinalized ==
    (RunStarted /\ task[1] \in {"cancelled", "finished"} /\ 1 \in cancel_signalled
       /\ pc = "dropped") =>
        /\ \E i \in TerminalEvents : run_states[i].state = "cancelled"
        /\ run_row.finished
        /\ run_row.status = "cancelled"

\* C3: when the task of a run whose ledger row was created has ended, the row
\* is finished, its status is a terminal state and it carries the final
\* counters.
C3_LedgerRowFinished ==
    (run_row.exists /\ task[1] = "finished") =>
        /\ run_row.finished
        /\ run_row.status \in TerminalStates
        /\ run_row.tool_calls = total_tool_calls
        /\ run_row.write_calls = total_write_calls
        /\ run_row.verify_failures = verify_failures

\* C5: whenever the iteration has ended (the run returned or was cancelled, or
\* the loop went on to its next head) the producer task spawned for it has
\* finished or was aborted, and its channel is dropped.
C5_ProducerEndsWithIteration ==
    (RunOver \/ pc = "loop_top") =>
        /\ llm_handle \in {"none", "finished_ok", "finished_err", "panicked",
                           "aborted"}
        /\ ~rx_open

\* C9: the tool executions of a run never exceed max_tool_calls, and the
\* counter written to the ledger at the end is at most max_tool_calls.
C9_ToolCallsWithinBudget ==
    /\ total_tool_calls <= MaxToolCalls
    /\ run_row.tool_calls <= MaxToolCalls

\* C10 as stated: a run opens at most max_iterations streaming LLM calls,
\* the summarization streams of compaction included.
C10_AtMostNStreams == llm_calls + summary_calls <= MaxIterations

\* C10: the loop opens at most max_iterations plan-phase streams, compaction
\* opens at most one summarization stream per plan-phase stream, and a run that
\* executed max_iterations batches returns with the terminal run_state
\* timeout / max_iterations_reached and the ledger status timeout.
C10_IterationBound ==
    /\ llm_calls <= MaxIterations
    /\ summary_calls <= llm_calls
    /\ (pc = "returned" /\ iteration = MaxIterations) =>
          /\ LastRunState = [state |-> "timeout",
                             reason |-> "max_iterations_reached"]
          /\ Cardinality(TerminalEvents) = 1
          /\ run_row.finished
          /\ run_row.status = "timeout"
          /\ run_result = "ok"

\* A run whose every iteration ended with a tool batch has returned.
C10_Witness ==
    /\ pc = "returned"
    /\ iteration = MaxIterations
    /\ llm_calls = MaxIterations
    /\ total_tool_calls >= MaxIterations
    /\ run_row.status = "timeout"

\* A dimension of the budget is exhausted: the wall clock passed
\* time_budget_ms, the iteration index reached max_iterations, the tool calls
\* reached max_tool_calls, or the approximate tokens reached token_budget.
BudgetExhausted ==
    \/ elapsed_over
    \/ iteration >= MaxIterations
    \/ total_tool_calls >= MaxToolCalls
    \/ (token_budget # 0 /\ approximate_token_count(messages) >= token_budget)

\* C11: a run that returned while a dimension of its budget was exhausted
\* ended with the terminal run_state timeout and the ledger status timeout,
\* never completed or failed, and its terminal timeline step states the
\* timeout reason.
C11_ExhaustedBudgetEndsTimeout ==
    (pc = "returned" /\ BudgetExhausted) =>
        /\ LastRunState.state = "timeout"
        /\ run_row.status = "timeout"
        /\ done_step = timed_out_preview(LastRunState.reason)

\* The envelope tools.execute returned for the call with this id.
ReturnOf(id) ==
    exec_log[CHOOSE k \in 1..Len(exec_log) :
                exec_log[k].ev = "return" /\ exec_log[k].id = id]

\* Position in the log at which the call with this id returned.
ReturnPos(id) ==
    CHOOSE k \in 1..Len(exec_log) :
        exec_log[k].ev = "return" /\ exec_log[k].id = id

\* The step that merges a finished batch into the history.
BatchMerged == pc = "writes" /\ pc' # "writes"

\* C12: the step that merges a batch of n calls appends, directly after the
\* assistant message, exactly n tool-role messages, and the i-th of them
\* carries the tool_call_id, the name and the result of the i-th call of the
\* model; anything appended after them is not a tool message.
C12_ToolMessagesInCallOrder ==
    [][BatchMerged =>
        LET n == Len(tool_calls)
            base == Len(messages)
        IN /\ messages[base].role = "assistant"
           /\ messages[base].tool_calls = CallIds(tool_calls)
           /\ Len(messages') >= base + n
           /\ SubSeq(messages', 1, base) = messages
           /\ \A i \in 1..n :
                 /\ messages'[base + i].role = "tool"
                 /\ messages'[base + i].tool_call_id = tool_calls[i].id
                 /\ messages'[base + i].tool_name = tool_calls[i].name
                 /\ messages'[base + i].chars = ReturnOf(tool_calls[i].id).chars
                 /\ messages'[base + i].ok = ReturnOf(tool_calls[i].id).ok
           /\ \A k \in (base + n + 1)..Len(messages') :
                 messages'[k].role # "tool"]_vars

\* A batch of two reads whose second call returned first has been merged, and
\* the history ends with the two tool messages in call order.
C12_Witness ==
    /\ pc = "loop_top"
    /\ Len(tool_calls) = 2
    /\ ReadIndices(tool_calls) = {1, 2}
    /\ Len(exec_log) >= 4
    /\ \A i \in 1..2 : \E k \in 1..Len(exec_log) :
          exec_log[k].ev = "return" /\ exec_log[k].id = tool_calls[i].id
    /\ ReturnPos(tool_calls[2].id) < ReturnPos(tool_calls[1].id)
    /\ ReturnOf(tool_calls[1].id).chars # ReturnOf(tool_calls[2].id).chars
    /\ Len(messages) >= 3
    /\ messages[Len(messages) - 1].tool_call_id = tool_calls[1].id
    /\ messages[Len(messages)].tool_call_id = tool_calls[2].id
    /\ messages[Len(messages) - 2].role = "assistant"

\* The batch a logged call belongs to: call ids are numbered batch by batch in
\* the order of the model's tool calls (id 0 is the flush of compaction).
BatchOf(id) == (id - 1) \div MaxBatch

\* Positions of the log that belong to calls of the model.
CallEntries == {k \in 1..Len(exec_log) : exec_log[k].id # 0}

SameBatch(p, q) == BatchOf(exec_log[p].id) = BatchOf(exec_log[q].id)

BatchPositions == {"reads", "writes"}

\* C18: no tool result ends a run. The step that merges a batch emits no
\* run_state, leaves the ledger row unfinished and Agent::run unreturned, and
\* goes on to compaction or to the next loop head, with the envelope of every
\* call of the batch, failed or not, appended as a tool message; and no step
\* taken while a batch is executed or merged returns from Agent::run.
C18_ToolFailuresBecomeMessages ==
    [][/\ BatchMerged =>
            /\ pc' \in {"loop_top", "compact_wait"}
            /\ run_result' = "none"
            /\ run_states' = run_states
            /\ run_row' = run_row
            /\ \A i \in 1..Len(tool_calls) :
                  \E k \in (Len(messages) + 1)..Len(messages') :
                      /\ messages'[k].role = "tool"
                      /\ messages'[k].tool_call_id = tool_calls[i].id
                      /\ messages'[k].ok = ReturnOf(tool_calls[i].id).ok
                      /\ messages'[k].chars = ReturnOf(tool_calls[i].id).chars
       /\ pc \in BatchPositions =>
            /\ pc' # "returned"
            /\ run_result' = "none"]_vars

\* A batch whose two calls failed, one with unknown_tool and one with
\* verify_mismatch, has been merged, and the run is at its next loop head.
C18_Witness ==
    /\ pc = "loop_top"
    /\ run_result = "none"
    /\ Len(tool_calls) = 2
    /\ Len(exec_log) = 4
    /\ \E k \in 1..Len(exec_log) : exec_log[k].code = "unknown_tool"
    /\ \E k \in 1..Len(exec_log) : exec_log[k].code = "verify_mismatch"
    /\ Len(messages) >= 2
    /\ \A k \in {Len(messages) - 1, Len(messages)} :
          messages[k].role = "tool" /\ ~messages[k].ok

\* The transitions of the state graph accepted -> planning -> (thinking)? ->
\* tool_calling -> verifying -> planning <-> responding -> terminal, read
\* generously: a batch may go from verifying to the tool_calling of its next
\* call, and failed, timeout and cancelled may follow any state.
AllowedTransitions ==
    {<<"accepted", "planning">>,
     <<"planning", "thinking">>,
     <<"planning", "tool_calling">>,
     <<"thinking", "tool_calling">>,
     <<"planning", "responding">>,
     <<"thinking", "responding">>,
     <<"tool_calling", "verifying">>,
     <<"verifying", "tool_calling">>,
     <<"verifying", "planning">>,
     <<"responding", "planning">>,
     <<"responding", "completed">>}
    \cup {<<from, to>> : from \in AgentStates \ TerminalStates,
                         to \in {"failed", "timeout", "cancelled"}}

\* C19: the agent:run_state events of a run, in emission order, start with
\* accepted, every two consecutive states are a transition of the state
\* graph, also in a batch of several concurrent reads, and once the run is
\* over the sequence ends at a terminal state.
C19_RunStatesWellFormed ==
    /\ RunStarted => run_states[1].state = "accepted"
    /\ \A i \in 1..(Len(run_states) - 1) :
          <<run_states[i].state, run_states[i + 1].state>> \in AllowedTransitions
    /\ (RunStarted /\ RunOver) => LastRunState.state \in TerminalStates

\* Executions of tools.execute that have returned, the flush included.
Executions == {k \in 1..Len(exec_log) : exec_log[k].ev = "return"}
WriteExecutions == {k \in Executions : is_write_tool(exec_log[k].name)}
MismatchEnvelopes == {k \in Executions : exec_log[k].code = "verify_mismatch"}

\* C14: after every tool batch and every compaction step, and in the finished
\* row of the ledger, tool_calls is the number of tool executions performed so
\* far, write_calls the number of them that were Write tools, and
\* verify_failures the number of envelopes returned with error.code
\* verify_mismatch, the executions of a pre-compaction flush included.
C14_CountersMatchExecutions ==
    (pc \in {"loop_top", "compact_wait", "returned"}) =>
        /\ total_tool_calls = Cardinality(Executions)
        /\ total_write_calls = Cardinality(WriteExecutions)
        /\ verify_failures = Cardinality(MismatchEnvelopes)
        /\ (pc = "returned" /\ run_row.finished) =>
              /\ run_row.tool_calls = Cardinality(Executions)
              /\ run_row.write_calls = Cardinality(WriteExecutions)
              /\ run_row.verify_failures = Cardinality(MismatchEnvelopes)

\* ============================================== SpecRuntime: the run map
\* Any number of runs on any conversations; the body of a run is abstracted
\* to its two outcomes in select!.
RtSpawnTakeToken == \E t \in Tokens, c \in Conversations : TakeToken(t, c)
RtSpawnRegister == \E t \in Tokens : RegisterAndSpawn(t)
RtUserCancels == \E c \in Conversations : CancelActiveRun(c)

\* select!: the cancel branch wins.
RtCancelBranch ==
    \E t \in Tokens :
        /\ task[t] = "racing"
        /\ t \in cancel_signalled
        /\ task' = [task EXCEPT ![t] = "cancelled"]
        /\ UNCHANGED <<next_run_token, active_runs, cancel_signalled, run_conv,
                       reg_order, chat_cancelled,
                   chat_out>>

\* select!: execute_assistant_run completes.
RtBodyReturns ==
    \E t \in Tokens :
        /\ task[t] = "racing"
        /\ task' = [task EXCEPT ![t] = "completed"]
        /\ UNCHANGED <<next_run_token, active_runs, cancel_signalled, run_conv,
                       reg_order, chat_cancelled,
                   chat_out>>

RtTaskEnds == \E t \in Tokens : FinishTask(t)

InitRuntime ==
    /\ RtInit
    /\ RunInit /\ token_budget = 0 /\ request = ReadyRequest
    /\ ToolIdle /\ file = "absent"
    /\ VaultIdle
    /\ AuxIdle

NextRuntime ==
    \/ RtSpawnTakeToken /\ UNCHANGED <<runVars, kbVars>>
    \/ RtSpawnRegister /\ UNCHANGED <<runVars, kbVars>>
    \/ RtUserCancels /\ UNCHANGED <<runVars, kbVars>>
    \/ RtCancelBranch /\ UNCHANGED <<runVars, kbVars>>
    \/ RtBodyReturns /\ UNCHANGED <<runVars, kbVars>>
    \/ RtTaskEnds /\ UNCHANGED <<runVars, kbVars>>

SpecRuntime == InitRuntime /\ [][NextRuntime]_vars

\* Runs registered on conversation c, and the position of a registration.
RegisteredOn(c) == {reg_order[i] : i \in {j \in 1..Len(reg_order) :
                                             run_conv[reg_order[j]] = c}}
RegPos(t) == CHOOSE i \in 1..Len(reg_order) : reg_order[i] = t

\* finish_assistant_run was executed for the run.
RunFinished(t) == task[t] = "finished"

\* C4 as stated, third clause: every run registered before the entry's run
\* on the conversation has been sent its cancel signal.
C4_EarlierRunsAllSignalled ==
    \A c \in Conversations :
        active_runs[c] # 0 =>
            \A t \in RegisteredOn(c) :
                RegPos(t) < RegPos(active_runs[c]) => t \in cancel_signalled

\* C4: the entry of a conversation is the run registered last on it, that run
\* has neither finished nor been sent a cancel signal, no other run on the
\* conversation is both unfinished and unsignalled, and every run registered
\* before the entry's run has finished or has been sent its cancel signal.
C4_ActiveRunMap ==
    \A c \in Conversations :
        /\ active_runs[c] # 0 =>
              /\ active_runs[c] \in RegisteredOn(c)
              /\ \A t \in RegisteredOn(c) : RegPos(t) <= RegPos(active_runs[c])
              /\ ~RunFinished(active_runs[c])
              /\ active_runs[c] \notin cancel_signalled
        /\ \A t \in RegisteredOn(c) :
              t # active_runs[c] => (RunFinished(t) \/ t \in cancel_signalled)

\* A conversation whose entry was preceded by a run that finished on its own
\* and by a run that was signalled.
C4_Witness ==
    \E c \in Conversations :
        /\ active_runs[c] # 0
        /\ \E t1, t2 \in RegisteredOn(c) \ {active_runs[c]} :
              /\ t1 \in cancel_signalled
              /\ RunFinished(t2) /\ t2 \notin cancel_signalled

\* =========================================== SpecTools: one registry call
InitTools ==
    /\ RtInit
    /\ RunInit /\ token_budget = 0 /\ request = ReadyRequest
    /\ ToolIdle /\ file \in Files
    /\ VaultIdle
    /\ AuxIdle

NextTools ==
    \/ ToolCallBegin
    \/ ReadBefore
    \/ ReadBeforeContent
    \/ WriteNote
    \/ ReadAfter
    \/ ReadAfterContent
    \/ RegistryReturn
    \/ ExternalWrite

SpecTools == InitTools /\ [][NextTools]_vars

\* ============================================= SpecVault: path arguments
InitVault ==
    /\ RtInit
    /\ RunInit /\ token_budget = 0 /\ request = ReadyRequest
    /\ ToolIdle /\ file = "absent"
    /\ VaultIdle
    /\ AuxIdle

NextVault == KbRead \/ KbCreate \/ KbUpdate \/ KbList

SpecVault == InitVault /\ [][NextVault]_vars

\* ============================================ properties of the registry
\* A Write-permissioned tool returned an envelope whose proof.readback_ok is
\* not true, and the registry has returned.
UnverifiedWriteReturned ==
    /\ t_pc = "returned"
    /\ Permission(tool) = "Write"
    /\ envelope.readback_ok # "true"

\* C6 as stated: for a Write tool whose envelope lacks proof.readback_ok =
\* true the registry returns ok = false, error.code = verify_mismatch,
\* error.retriable = false and the original target.
C6_UnverifiedWriteIsVerifyMismatch ==
    UnverifiedWriteReturned =>
        /\ returned.ok = "false"
        /\ returned.code = "verify_mismatch"
        /\ returned.retriable = FALSE
        /\ returned.target = envelope.target

\* C6: for a Write tool whose envelope lacks proof.readback_ok = true the
\* registry returns ok = false and the original target; an envelope that was
\* already ok = false is returned unchanged with its own error, and any other
\* is returned with error.code = verify_mismatch and error.retriable = false.
C6_UnverifiedWriteIsFailure ==
    UnverifiedWriteReturned =>
        /\ returned.ok = "false"
        /\ returned.target = envelope.target
        /\ envelope.ok = "false" => returned = envelope
        /\ envelope.ok # "false" =>
              /\ returned.code = "verify_mismatch"
              /\ returned.retriable = FALSE

\* The registry rewrote an envelope that claimed success without the proof.
C6_Witness ==
    /\ UnverifiedWriteReturned
    /\ envelope.ok = "true"
    /\ envelope.target = "note.md"
    /\ returned.code = "verify_mismatch"

\* C7: an envelope of kb_create or kb_update returned with ok = true has
\* proof.readback_ok = true and proof.hash_after equal to the hash of the
\* content its readback observed, which is the requested content, whatever
\* other writers did to the file during the call.
C7_SuccessHashIsReadback ==
    (t_pc = "returned" /\ tool \in {"kb_create", "kb_update"}
       /\ returned.ok = "true") =>
        /\ returned.readback_ok = "true"
        /\ returned.hash_after = file_hash(t_content)

\* ================================================ properties of the vault
Inside(path) ==
    /\ Len(path) >= Len(VaultRoot)
    /\ SubSeq(path, 1, Len(VaultRoot)) = VaultRoot

\* C8: whatever the path or folder argument, the file or directory a kb_read,
\* kb_create, kb_update or kb_list call reads, writes or lists lies inside the
\* vault root.
C8_AccessInsideVaultRoot == v_access.touched => Inside(v_access.path)

\* ================================================= SpecUsage: token usage
InitUsage ==
    /\ RtInit
    /\ RunInit /\ token_budget = 0 /\ request = ReadyRequest
    /\ ToolIdle /\ file = "absent"
    /\ VaultIdle
    /\ AuxIdle

NextUsage ==
    \/ UsageStreamOpen
    \/ ProviderReadsUsage
    \/ ProviderStreamEnds
    \/ RecvUsage

SpecUsage == InitUsage /\ [][NextUsage]_vars

RECURSIVE MergedReports(_)
\* The per-field maximum of the usage objects of one stream.
MergedReports(reports) ==
    IF reports = <<>> THEN DefaultUsage
    ELSE merge_max_assign(MergedReports(SubSeq(reports, 1, Len(reports) - 1)),
                          reports[Len(reports)])

RECURSIVE SumOfStreams(_)
\* The saturating sum, over the streams, of the merged usage of each stream.
SumOfStreams(streams) ==
    IF streams = <<>> THEN DefaultUsage
    ELSE saturating_add_assign(
            SumOfStreams(SubSeq(streams, 1, Len(streams) - 1)),
            MergedReports(streams[Len(streams)]))

\* C15: once every stream opened so far has ended and its events are
\* received, the cumulative usage of the run is the saturating sum over the
\* streams of the per-field maximum of the usage objects each stream surfaced:
\* the repeated usage of one stream is merged by maximum, not added.
C15_UsageIsSumOfStreamMaxima ==
    (~u_open /\ usage_rx = <<>>) =>
        total_token_usage = SumOfStreams(finished_streams)

\* ================================================== SpecLlm: chat_stream
InitLlm ==
    /\ RtInit
    /\ RunInit /\ token_budget = 0 /\ request = ReadyRequest
    /\ ToolIdle /\ file = "absent"
    /\ VaultIdle
    /\ UsageIdle
    /\ ReindexIdle
    /\ ExtIdle
    /\ l_pc = "start"
    /\ l_phase = "primary"
    /\ l_attempt = 0
    /\ l_now = 0
    /\ l_wake_at = 0
    /\ l_calls = <<>>
    /\ l_events = <<>>
    /\ l_tx = <<>>
    /\ l_read = 0
    /\ l_primary_error = {}
    /\ l_result = NoResult
    /\ l_tools \in BOOLEAN
    /\ l_fallback_id \in {"", PrimaryModelId, OtherModelId}

NextLlm ==
    \/ ChatStreamBegin
    \/ ProviderChat
    \/ SleepTick
    \/ SleepOver
    \/ FallbackDecide
    \/ RunReceives

SpecLlm == InitLlm /\ [][NextLlm]_vars

\* The invocations of provider.chat, and the Retry events, of one retry loop.
CallsOf(phase) == SelectSeq(l_calls, LAMBDA c : c.phase = phase)
RetriesOf(phase) ==
    SelectSeq(l_events, LAMBDA e : e.kind = "Retry" /\ e.phase = phase)

\* A non-retriable marker: an auth marker or the tool-routing wording.
NonRetriable(message) ==
    is_non_retriable_auth_error(message)
    \/ is_tool_routing_unsupported_error(message)

\* C16: in one retry loop the provider is attempted at most 4 times; the k-th
\* Retry event follows the k-th attempt, which failed with a retriable error,
\* and carries that error, attempt = k, max_attempts = 4 and
\* retry_in_ms = 1000 * 2^(k-1); attempt k+1 starts only after Retry k and
\* not before its delay has passed; an attempt that failed with a
\* non-retriable marker, or the 4th attempt, is the last one and no Retry
\* follows it.
C16_RetrySchedule ==
    \A phase \in {"primary", "fallback"} :
        LET calls == CallsOf(phase)
            retries == RetriesOf(phase)
        IN /\ Len(calls) <= 4
           /\ Len(retries) <= 3
           /\ Len(retries) <= Len(calls)
           /\ Len(calls) <= Len(retries) + 1
           /\ \A k \in 1..Len(retries) :
                 /\ retries[k].attempt = k
                 /\ retries[k].max_attempts = 4
                 /\ retries[k].retry_in_ms = 1000 * 2^(k - 1)
                 /\ calls[k].st = "err"
                 /\ retries[k].error = calls[k].msg
                 /\ is_retriable_provider_error(calls[k].msg)
                 /\ ~NonRetriable(calls[k].msg)
                 /\ retries[k].at >= calls[k].at
                 /\ k + 1 <= Len(calls) =>
                       calls[k + 1].at * 1000
                           >= retries[k].at * 1000 + retries[k].retry_in_ms
           /\ \A k \in 1..Len(calls) :
                 (calls[k].st = "err" /\ NonRetriable(calls[k].msg)) =>
                     /\ Len(calls) = k
                     /\ Len(retries) = k - 1
           /\ (l_pc \in {"sleep"} /\ l_phase = phase) =>
                 Len(retries) = Len(calls)

\* The three retries of the primary were waited for and its 4th attempt
\* failed; the first attempt of the fallback failed with a message that
\* carries both a retriable and a non-retriable marker, and ended the call.
C16_Witness ==
    /\ Len(CallsOf("primary")) = 4
    /\ Len(RetriesOf("primary")) = 3
    /\ l_now = 7
    /\ Len(CallsOf("fallback")) = 1
    /\ CallsOf("fallback")[1].msg = {"401", "unauthorized", "503"}
    /\ l_pc = "done"

FallbackEvents == SelectSeq(l_events, LAMBDA e : e.kind = "Fallback")

\* C17 as stated: the fallback provider is invoked exactly once, a single
\* attempt with no retry loop of its own.
C17_FallbackSingleAttempt ==
    /\ Len(FallbackEvents) <= 1
    /\ Len(CallsOf("fallback")) <= 1
    /\ RetriesOf("fallback") = <<>>

\* C17: the fallback is used only after the primary failed and only if a
\* fallback model id is configured and differs from the primary; then
\* exactly one Recovery::Fallback is sent, from the primary model id to the
\* fallback model id with the primary error as reason, before the fallback
\* provider is invoked; the fallback runs once through the retry loop (at
\* most 4 attempts); if it fails too, the returned error quotes the primary
\* error and the last error of the fallback.
C17_FallbackAfterPrimaryFailure ==
    LET primary == CallsOf("primary")
        fallback == CallsOf("fallback")
    IN /\ Len(FallbackEvents) <= 1
       /\ fallback # <<>> => Len(FallbackEvents) = 1
       /\ Len(fallback) <= max_attempts
       /\ Len(FallbackEvents) = 1 =>
             /\ l_fallback_id # ""
             /\ l_fallback_id # PrimaryModelId
             /\ primary # <<>>
             /\ primary[Len(primary)].st = "err"
             /\ FallbackEvents[1].from_model_id = PrimaryModelId
             /\ FallbackEvents[1].to_model_id = l_fallback_id
             /\ FallbackEvents[1].error = l_primary_error
             /\ primary[Len(primary)].msg \subseteq l_primary_error
             /\ \A k \in 1..Len(fallback) :
                   fallback[k].at >= FallbackEvents[1].at
             /\ l_pc = "done" => fallback # <<>>
       /\ (l_pc = "done" /\ fallback # <<>>
            /\ fallback[Len(fallback)].st = "err") =>
             /\ l_result.kind = "err"
             /\ l_result.why = "primary_and_fallback"
             /\ l_result.primary = l_primary_error
             /\ l_result.fallback = fallback[Len(fallback)].msg

\* The fallback was retried and failed: the error quotes both failures.
C17_Witness ==
    /\ l_pc = "done"
    /\ Len(CallsOf("fallback")) >= 2
    /\ Len(RetriesOf("fallback")) >= 1
    /\ l_result.why = "primary_and_fallback"
    /\ l_result.primary # {}
    /\ l_result.fallback # {}

\* ===================================== SpecReindex: the indexing gate
InitReindex ==
    /\ RtInit
    /\ RunInit /\ token_budget = 0 /\ request = ReadyRequest
    /\ ToolIdle /\ file = "absent"
    /\ VaultIdle
    /\ AuxIdle

NextReindex ==
    \E p \in Callers :
        \/ ReindexInvoke(p)
        \/ ReindexCheck(p)
        \/ ReindexSetActive(p)
        \/ ReindexList(p)
        \/ ReindexFile(p)
        \/ ReindexFinish(p)

SpecReindex == InitReindex /\ [][NextReindex]_vars

\* C20: at most one caller is between set_indexing_active(true) and
\* set_indexing_active(false) at any time, and an invocation that found a
\* reindex active returned without reading the vault or modifying the index.
C20_OneReindexBody ==
    /\ Cardinality({p \in Callers : r_pc[p] \in BodyPositions}) <= 1
    /\ \A p \in Callers :
          r_skipped[p] => (r_pc[p] = "returned" /\ ~r_read[p] /\ ~r_wrote[p])

\* ======================================== SpecStore: the SQLite store
\* The index holds nothing, or a.md as an earlier reindex left it.
InitStore ==
    /\ ChunkIdle
    /\ CreateIdle
    /\ WatcherIdle
    /\ BatchIdle
    /\ RtInit
    /\ RunInit /\ token_budget = 0 /\ request = ReadyRequest
    /\ ToolIdle /\ file = "absent"
    /\ VaultIdle
    /\ UsageIdle /\ LlmIdle /\ ReindexIdle
    /\ ConvIdle /\ SearchIdle /\ CompactionIdle
    /\ db \in {EmptyRows, replaced_rows(EmptyRows, "a.md", "h1", MaxChunks)}
    /\ tx = conn_execute(db)
    /\ w_op = "none"
    /\ w_pc = "idle"
    /\ w_arg = NoArg
    /\ w_i = 0
    /\ w_before = db
    /\ w_target = db
    /\ w_done = "none"
    /\ w_ops = 0
    /\ rd_seen = NoSeen

NextStore ==
    \/ ReplaceBegin
    \/ RemoveBegin
    \/ SaveMessageBegin
    \/ DeleteStatement
    \/ InsertStatement
    \/ UpsertStatement
    \/ Commit
    \/ SaveMessageStatement
    \/ StatementFails
    \/ ReaderQuery

SpecStore == InitStore /\ [][NextStore]_vars

\* The chunks of a path have their files row: same hash, and as many chunks
\* as the row counts.
ChunksHaveFilesRow(rows) ==
    rows.chunks # {} =>
        \E f \in rows.files :
            /\ \A c \in rows.chunks : c.file_hash = f.hash
            /\ Cardinality(rows.chunks) = f.chunk_count

\* C21: a query made while replace_file_chunks_atomically runs returns, for
\* every path, the rows as they were before the call or as the completed call
\* leaves them, and never chunks without their files row; a call that failed
\* leaves the database as it was, and a call that returned Ok leaves the
\* complete new rows.
C21_ReplaceIsAtomic ==
    /\ rd_seen.op = "replace" =>
          /\ rd_seen.rows \in {rd_seen.before, rd_seen.target}
          /\ ChunksHaveFilesRow(rd_seen.rows)
    /\ w_op = "replace" => db = w_before
    /\ (w_arg.op = "replace" /\ w_done = "failed") => db = w_before
    /\ (w_arg.op = "replace" /\ w_done = "ok") => db = w_target

\* C21 witness: a query ran after the transaction had deleted the old rows of
\* a.md and inserted a new chunk, and returned the old rows, which differ from
\* the new ones.
C21_Witness ==
    /\ w_op = "replace"
    /\ w_pc \in {"insert_fts", "upsert"}
    /\ rd_seen.op = "replace"
    /\ rd_seen.path = w_arg.path
    /\ rd_seen.rows = rd_seen.before
    /\ rd_seen.before.chunks # {}
    /\ rd_seen.before # rd_seen.target
    /\ tx.rows # db

\* C22: whatever mutating method the writer is in, the database holds the
\* rows as they were before the call or as the completed call leaves them,
\* and a call that failed leaves the rows as they were.
C22_MutatingOpsAtomic ==
    /\ w_op # "none" => db \in {w_before, w_target}
    /\ w_done = "failed" => db = w_before

\* =================================== SpecConversations: archive and pin
InitConversations ==
    /\ RtInit
    /\ RunInit /\ token_budget = 0 /\ request = ReadyRequest
    /\ ToolIdle /\ file = "absent"
    /\ VaultIdle
    /\ AuxIdle

NextConversations ==
    \E id \in ConversationIds :
        \/ create_conversation(id)
        \/ \E archived \in BOOLEAN : set_conversation_archived(id, archived)
        \/ \E pinned \in BOOLEAN : set_conversation_pinned(id, pinned)

SpecConversations == InitConversations /\ [][NextConversations]_vars

\* C23: no conversation is pinned and archived at the same time.
C23_NeverPinnedAndArchived ==
    \A id \in ConversationIds :
        ~(conversations[id].pinned /\ conversations[id].archived)

\* ========================================== SpecSearch: search_hybrid
\* An index and a query: the two candidate lists they give, and a limit.
InitSearch ==
    /\ ChunkIdle
    /\ CreateIdle
    /\ WatcherIdle
    /\ BatchIdle
    /\ RtInit
    /\ RunInit /\ token_budget = 0 /\ request = ReadyRequest
    /\ ToolIdle /\ file = "absent"
    /\ VaultIdle
    /\ UsageIdle /\ LlmIdle /\ ReindexIdle /\ StoreIdle /\ ConvIdle
    /\ CompactionIdle
    /\ s_vector \in CandidateLists
    /\ s_keyword \in CandidateLists
    /\ s_limit \in 1..MaxCandidates
    /\ s_results = <<>>

NextSearch == SearchHybrid

SpecSearch == InitSearch /\ [][NextSearch]_vars

\* C24: two calls with the same embedding, text and limit on the unchanged
\* index return the same list: the same chunks in the same order with the
\* same retrieval_score.
C24_SearchHybridRepeatable ==
    Len(s_results) = MaxSearchCalls => s_results[1] = s_results[2]

\* ============================== SpecCompaction: maybe_compact_context
InitCompaction ==
    /\ ChunkIdle
    /\ CreateIdle
    /\ WatcherIdle
    /\ BatchIdle
    /\ RtInit
    /\ RunInit /\ token_budget = 0 /\ request = ReadyRequest
    /\ ToolIdle /\ file = "absent"
    /\ VaultIdle
    /\ UsageIdle /\ LlmIdle /\ ReindexIdle
    /\ StoreIdle /\ ConvIdle /\ SearchIdle
    /\ k_pc = "start"
    /\ \E n \in 2..(MaxHistory - 1) :
          \E rest \in [1..n -> HistoryMessages] : k_messages = History(rest)
    /\ k_before = k_messages
    /\ k_compacted = FALSE
    /\ k_removed = 0

NextCompaction == MaybeCompactContext

SpecCompaction == InitCompaction /\ [][NextCompaction]_vars

\* C25: the call compacts the history if and only if its token count is at
\* least 80% of the context limit of the model and it has at least 4 messages.
C25_CompactionIffThreshold ==
    k_pc = "done" =>
        (k_compacted <=>
            /\ 5 * approximate_token_count(k_before)
                  >= 4 * approximate_model_context_limit(RunModel)
            /\ Len(k_before) >= 4)

RECURSIVE IsSubsequence(_, _)
IsSubsequence(a, b) ==
    IF a = <<>> THEN TRUE
    ELSE IF b = <<>> THEN FALSE
    ELSE IF Head(a) = Head(b) THEN IsSubsequence(Tail(a), Tail(b))
    ELSE IsSubsequence(a, Tail(b))

\* C26: when the call compacted a history of `total` messages, message 0 is
\* unchanged, index 1 holds the summary message and no other message was
\* added, the last min(6, total - 1) messages are the same, the retained
\* messages are in their old order, and the length is total - removed + 1.
C26_CompactedHistoryShape ==
    (k_pc = "done" /\ k_compacted) =>
        LET total == Len(k_before)
            kept == <<k_messages[1]>> \o SubSeq(k_messages, 3, Len(k_messages))
        IN  /\ k_messages[1] = k_before[1]
            /\ k_messages[2].role = "system"
            /\ k_messages[2].chars \in {28 + SummaryChars, 28 + DefaultSummaryChars}
            /\ \A j \in 1..Min(6, total - 1) :
                  k_messages[Len(k_messages) - j + 1] = k_before[total - j + 1]
            /\ IsSubsequence(kept, k_before)
            /\ k_removed >= 1
            /\ Len(k_messages) = total - k_removed + 1

\* C26 witness: a history of nine messages was compacted, two messages were
\* removed and a message older than the last six was retained.
C26_Witness ==
    /\ k_pc = "done"
    /\ k_compacted
    /\ Len(k_before) = 9
    /\ k_removed = 2
    /\ Len(k_messages) = 8

\* C32: when the call compacted the history, at least one message was removed
\* and the approximate token count of the new history is strictly smaller
\* than that of the old one (before_tokens > after_tokens).
C32_CompactionShrinksHistory ==
    (k_pc = "done" /\ k_compacted) =>
        /\ k_removed >= 1
        /\ approximate_token_count(k_messages) < approximate_token_count(k_before)

\* ================================== properties of kb_create and kb_update
\* The step is not a write of another writer.
NoExternalWrite == ext_writes' = ext_writes

\* The registry has returned the envelope of the tool as it was.
ReturnedAsIs == t_pc = "returned" => returned = envelope

C28_UpdateOfMissing ==
    /\ [][(tool = "kb_update" /\ t_pc = "before" /\ t_pc' # "before"
             /\ file = "absent")
            => /\ t_pc' = "enforce"
               /\ envelope'.ok = "false"
               /\ envelope'.code = "not_found"
               /\ file' = "absent"]_vars
    /\ [](tool = "kb_update" /\ envelope.code = "not_found" =>
            /\ t_pc \in {"enforce", "returned"}
            /\ envelope.ok = "false"
            /\ ReturnedAsIs)
    /\ [][(tool = "kb_update" /\ envelope.code = "not_found" /\ NoExternalWrite)
             => file' = file]_vars

\* C28 witness: kb_update of a path that does not exist has returned
\* not_found, and there is still no file.
C28_Witness ==
    /\ tool = "kb_update"
    /\ t_pc = "returned"
    /\ returned.ok = "false"
    /\ returned.code = "not_found"
    /\ file = "absent"
    /\ ext_writes = 0

\* C29: when the hash of the content equals the hash kb_update read from the
\* existing note, kb_update returns ok = true, write_action = noop,
\* noop = true, proof.readback_ok = true, hash_before = hash_after and
\* diff_stats.changed = false, the registry returns that envelope, and the
\* call never writes the file.
C29_NoopUpdate ==
    /\ [](tool = "kb_update" /\ before.exists
            /\ before.hash = file_hash(t_content) =>
            \/ t_pc = "before_content"
            \/ /\ t_pc \in {"enforce", "returned"}
               /\ envelope.ok = "true"
               /\ envelope.write_action = "noop"
               /\ envelope.noop = "true"
               /\ envelope.readback_ok = "true"
               /\ envelope.hash_before = envelope.hash_after
               /\ envelope.hash_after = file_hash(t_content)
               /\ envelope.changed = "false"
               /\ ReturnedAsIs)
    /\ [][(tool = "kb_update" /\ before.exists
             /\ before.hash = file_hash(t_content) /\ NoExternalWrite)
            => file' = file]_vars

\* C29 witness: kb_update("alpha") on a file holding "alpha" has returned the
\* noop envelope, and the file holds "alpha".
C29_Witness ==
    /\ tool = "kb_update"
    /\ t_pc = "returned"
    /\ t_content = "alpha"
    /\ returned.write_action = "noop"
    /\ returned.ok = "true"
    /\ file = "alpha"
    /\ ext_writes = 0

\* C30: when the content kb_create or kb_update reads back after its write
\* differs from the content it was asked to write, it returns ok = false with
\* error.code = verify_mismatch, error.retriable = false and
\* proof.readback_ok = false, and the registry returns that envelope.
C30_ReadbackMismatch ==
    /\ [][(tool \in {"kb_create", "kb_update"} /\ t_pc = "readback_content"
             /\ t_pc' # "readback_content" /\ after_content' # t_content)
            => /\ envelope'.ok = "false"
               /\ envelope'.code = "verify_mismatch"
               /\ envelope'.retriable = FALSE
               /\ envelope'.readback_ok = "false"]_vars
    /\ [](tool \in {"kb_create", "kb_update"}
            /\ envelope.code = "verify_mismatch" => ReturnedAsIs)

\* C30 witness: kb_update("beta") wrote the file, another writer replaced the
\* content before the readback, and verify_mismatch was returned.
C30_Witness ==
    /\ tool = "kb_update"
    /\ t_pc = "returned"
    /\ t_content = "beta"
    /\ ext_writes = 1
    /\ after_content = "alpha"
    /\ file = "alpha"
    /\ before.exists
    /\ before.hash # file_hash("alpha")
    /\ returned.code = "verify_mismatch"
    /\ returned.readback_ok = "false"

\* ===================================== properties of the index-readiness guard
\* C31: a run whose request has note_count > 0 and indexed_chunks = 0 opens no
\* LLM call and executes no tool, and its future is either not yet polled,
\* dropped by a cancellation, or returned; once Agent::run has returned, the run_state
\* events are accepted then failed with a reason that begins with
\* index_not_ready, the ledger row is failed, and the error returned is the
\* user-facing message of the timeline's done step.
C31_IndexNotReadyFailsRun ==
    (request.note_count > 0 /\ request.indexed_chunks = 0) =>
        /\ pc \in {"idle", "dropped", "returned"}
        /\ llm_calls = 0
        /\ summary_calls = 0
        /\ executed_tools = 0
        /\ exec_log = <<>>
        /\ pc = "returned" =>
              /\ Len(run_states) = 2
              /\ run_states[1].state = "accepted"
              /\ run_states[2].state = "failed"
              /\ \E a \in {"true", "false"} :
                    run_states[2].reason =
                        "index_not_ready:indexing_active=" \o a
              /\ run_row.status = "failed"
              /\ run_row.finished
              /\ run_result \in
                    {"Index is updating. Wait for reindex to finish before chat.",
                     "Index is empty. Run reindex before chatting."}
              /\ done_step = run_result

\* A run on a vault with one note and no indexed chunk has returned while a
\* reindex was active.
C31_Witness ==
    /\ request.note_count = 1
    /\ request.indexed_chunks = 0
    /\ pc = "returned"
    /\ run_row.status = "failed"
    /\ run_result = "Index is updating. Wait for reindex to finish before chat."

\* ============================== properties of the events of one chat_stream
\* C33: when chat_stream has returned Ok and the loop of Agent::run has
\* received every event, the tool calls and the text it has buffered are
\* those of the provider attempt that returned Ok: no event of an attempt
\* that failed is among them.
C33_OnlySuccessfulAttemptBuffered ==
    (l_result.kind = "ok" /\ l_read = Len(l_tx)) =>
        /\ \A i \in 1..Len(buffered_tool_calls) :
              buffered_tool_calls[i].attempt_ok
        /\ \A i \in 1..Len(buffered_text) : buffered_text[i].attempt_ok

\* ======================================== properties of a cancelled run
\* A step in which the registry returned from a write tool that wrote the vault.
VaultWritten ==
    \E k \in (Len(exec_log) + 1)..Len(exec_log') :
        /\ exec_log'[k].ev = "return"
        /\ is_write_tool(exec_log'[k].name)
        /\ exec_log'[k].ok

\* C34: once the cancel signal was sent to the observed run (by
\* cancel_active_run or by the registration of a later run of the same
\* conversation), no step of the run writes the vault through a tool, saves
\* the assistant message or emits chat:done; and the run emits at most one of
\* chat:done, chat:error and chat:cancelled.
C34_NoEffectsAfterCancel ==
    /\ [][(1 \in cancel_signalled) =>
             /\ ~VaultWritten
             /\ chat_out'.saved = chat_out.saved
             /\ (chat_out'.event = "chat:done") => (chat_out.event = "chat:done")
         ]_vars
    /\ [](~(chat_out.event # "" /\ 1 \in chat_cancelled))

\* ==================================== SpecBatch: one tool batch on one note
InitBatch ==
    /\ ChunkIdle
    /\ CreateIdle
    /\ WatcherIdle
    /\ RtInit
    /\ RunInit /\ token_budget = 0 /\ request = ReadyRequest
    /\ ToolIdle /\ file = "absent"
    /\ VaultIdle
    /\ UsageIdle /\ LlmIdle /\ ReindexIdle
    /\ StoreIdle /\ ConvIdle /\ SearchIdle /\ CompactionIdle
    /\ b_pc = "reads"
    /\ \E n \in 1..MaxBatchCalls :
          \E calls \in [1..n -> BatchCalls] : b_calls = calls
    /\ b_file \in Files \ {""}
    /\ b_results = [i \in DOMAIN b_calls |-> BatchResult("todo", FALSE, "", "")]
    /\ b_messages = <<>>

NextBatch ==
    \/ BatchRead
    \/ BatchReadsJoined
    \/ BatchWrite
    \/ BatchMerge

SpecBatch == InitBatch /\ [][NextBatch]_vars

\* C35: when the batch holds a write of the note that succeeded and, later
\* in the batch with no other successful write in between, a kb_read of the
\* note, the message of the read holds the content that write wrote.
C35_ReadAfterWriteSeesWrite ==
    b_pc = "done" =>
        \A i, j \in DOMAIN b_calls :
            (/\ i < j
             /\ is_write_tool(b_calls[i].name)
             /\ b_messages[i].ok
             /\ b_calls[j].name = "kb_read"
             /\ \A k \in (i + 1)..(j - 1) :
                   ~(is_write_tool(b_calls[k].name) /\ b_messages[k].ok))
            => /\ b_messages[j].ok
               /\ b_messages[j].content = b_calls[i].content

\* ============================== SpecWatcher: the watcher and its reindex tasks
InitWatcher ==
    /\ RtInit
    /\ RunInit /\ token_budget = 0 /\ request = ReadyRequest
    /\ ToolIdle /\ file = "absent"
    /\ VaultIdle
    /\ AuxIdle

WatcherTaskStep(t) ==
    \/ WatcherTaskCheck(t)
    \/ WatcherTaskSetActive(t)
    \/ WatcherTaskRead(t)
    \/ WatcherTaskReplace(t)
    \/ WatcherTaskFinish(t)

NextWatcher ==
    \/ NoteChanges
    \/ WatcherSpawns
    \/ \E t \in WatcherTasks : WatcherTaskStep(t)

SpecWatcher == InitWatcher /\ [][NextWatcher]_vars

\* The watcher thread keeps receiving from events_rx and the runtime keeps
\* polling every spawned task; the user need not change the note again.
SpecWatcherFair ==
    /\ SpecWatcher
    /\ WF_vars(WatcherSpawns)
    /\ \A t \in WatcherTasks : WF_vars(WatcherTaskStep(t))

\* C36: every version the note takes on disk is eventually covered by the
\* index (the index holds that version or a later one), and whenever
\* INDEXING_ACTIVE is set it is eventually cleared.
C36_ChangesEventuallyIndexed ==
    /\ \A v \in 1..MaxChanges : (wt_version = v) ~> (wt_indexed >= v)
    /\ indexing_active ~> ~indexing_active

\* ===================================== SpecFair: the run under fair polling
\* One step of the run future. The runtime keeps polling the task, the timer
\* of timeout(llm_response_timeout, rx.recv()) fires, every tool call returns.
\* summarize_messages_for_compaction awaits chat_stream and the reader task
\* with no timer, so maybe_compact_context is only certain to return when no
\* summary call is made.
RunStep ==
    \/ AgentRunBegin
    \/ LoopTop
    \/ RecvEvent
    \/ RecvClosed
    \/ RecvTimeout
    \/ Join
    \/ PostStream
    \/ \E i \in 1..MaxBatch : ReadFinish(i)
    \/ WriteExec
    \/ AfterBatch
    \/ (~summary_call_needed(messages) /\ CompactFinish)

\* No fairness for the producer task: whether chat_stream sends another event
\* or returns is up to the provider.
SpecFair == Spec /\ WF_vars(RunStep)

\* C37: every run that entered the loop of Agent::run reaches a terminal
\* position (Agent::run returned, or select! dropped the future), whatever
\* the producer task and the summary call do.
C37_RunTerminates == (pc = "loop_top") ~> RunOver

\* ================================ tool-call coherence of a compacted history
\* The message that opens the block of the tool message at position j: the
\* nearest earlier message that is not a tool message (0: none).
BlockOpener(h, j) ==
    LET openers == {i \in 1..(j - 1) : h[i].role # "tool"}
    IN IF openers = {} THEN 0 ELSE CHOOSE i \in openers : \A k \in openers : k <= i

IdsOf(calls) == {calls[i] : i \in DOMAIN calls}

\* Every tool message answers a call of the assistant message that opens its
\* block, and every call of an assistant message is answered in the block
\* that follows it.
Coherent(h) ==
    /\ \A j \in DOMAIN h :
          h[j].role = "tool" =>
             /\ BlockOpener(h, j) # 0
             /\ h[BlockOpener(h, j)].role = "assistant"
             /\ h[j].tool_call_id \in IdsOf(h[BlockOpener(h, j)].tool_calls)
    /\ \A i \in DOMAIN h :
          \A id \in IdsOf(h[i].tool_calls) :
             \E j \in DOMAIN h :
                /\ h[j].role = "tool"
                /\ h[j].tool_call_id = id
                /\ BlockOpener(h, j) = i

\* The histories Agent::run calls maybe_compact_context with: the
\* instructions, then the user message (or the summary of an earlier
\* compaction, which scores the same), then blocks of an assistant message
\* with its tool messages.
RunBuiltHistory(h) ==
    /\ Len(h) >= 2
    /\ h[2].role \in {"user", "system"}
    /\ h[2].tool_calls = <<>>
    /\ Coherent(h)

\* C38: when maybe_compact_context compacted a history that Agent::run built,
\* the compacted history is tool-call coherent: every retained tool message
\* still follows a retained assistant message holding its tool_call_id and
\* every call of a retained assistant message still has its tool message.
C38_CompactionKeepsToolCoherence ==
    (k_pc = "done" /\ k_compacted /\ RunBuiltHistory(k_before)) =>
        Coherent(k_messages)

\* C38 witness: a history of nine messages with two blocks was compacted;
\* the user message was dropped and the block older than the last six
\* messages was retained behind the summary.
C38_Witness ==
    /\ k_pc = "done"
    /\ k_compacted
    /\ RunBuiltHistory(k_before)
    /\ Len(k_before) = MaxHistory
    /\ k_before[3].role = "assistant"
    /\ k_before[4].role = "tool"
    /\ k_removed = 1
    /\ k_messages[3] = k_before[3]
    /\ \E j \in 5..MaxHistory : k_before[j].role = "assistant"

\* ================== SpecCreate: two concurrent kb_create calls on one path
InitCreate ==
    /\ ChunkIdle
    /\ RtInit
    /\ RunInit /\ token_budget = 0 /\ request = ReadyRequest
    /\ ToolIdle /\ file = "absent"
    /\ VaultIdle
    /\ UsageIdle /\ LlmIdle /\ ReindexIdle
    /\ StoreIdle /\ ConvIdle /\ SearchIdle /\ CompactionIdle
    /\ BatchIdle /\ WatcherIdle
    /\ cc_file \in Files
    /\ cc_pc = [c \in CreateCalls |-> "before"]
    /\ cc_content \in [CreateCalls -> Contents]
    /\ cc_after = [c \in CreateCalls |-> NoVerification]
    /\ cc_returned = [c \in CreateCalls |-> NoEnvelope]

CreateStep(c) ==
    \/ CreateReadBefore(c)
    \/ CreateWriteNote(c)
    \/ CreateReadAfter(c)
    \/ CreateReadAfterContent(c)

NextCreate == \E c \in CreateCalls : CreateStep(c)

SpecCreate == InitCreate /\ [][NextCreate]_vars

CreatedOk == {c \in CreateCalls : cc_returned[c].ok = "true"}

\* C39: once both kb_create calls for the path have returned, at most one of
\* them returned ok = true, and the file holds the content of the call that
\* returned ok = true.
C39_ConcurrentCreateExclusive ==
    (\A c \in CreateCalls : cc_pc[c] = "returned") =>
        /\ Cardinality(CreatedOk) <= 1
        /\ \A c \in CreatedOk : cc_file = cc_content[c]

\* ================================== SpecChunk: one call of chunk_text
InitChunk ==
    /\ RtInit
    /\ RunInit /\ token_budget = 0 /\ request = ReadyRequest
    /\ ToolIdle /\ file = "absent"
    /\ VaultIdle
    /\ UsageIdle /\ LlmIdle /\ ReindexIdle
    /\ StoreIdle /\ ConvIdle /\ SearchIdle /\ CompactionIdle
    /\ BatchIdle /\ WatcherIdle /\ CreateIdle
    /\ ch_pc = "begin"
    /\ ch_text \in Texts
    /\ ch_size \in 1..MaxChunkSize
    /\ ch_overlap \in 0..MaxOverlap
    /\ ch_start = 0
    /\ ch_chunks = <<>>

NextChunk == ChunkTextBegin \/ ChunkTextLoop

SpecChunk == InitChunk /\ [][NextChunk]_vars

\* The thread that called chunk_text keeps running.
SpecChunkFair == SpecChunk /\ WF_vars(NextChunk)

\* C40: the call comes to an end (it returns; a panic of the subtraction
\* counts as an end as well), and every chunk it returns holds at most
\* chunk_size words.
C40_ChunkTextTerminates ==
    /\ <>(ch_pc \in {"done", "panicked"})
    /\ [](ch_pc = "done" => \A i \in DOMAIN ch_chunks : ch_chunks[i] <= ch_size)

====
